---------------------------- MODULE Spec2Model ----------------------------
(***************************************************************************)
(* The request router, the four caching policies, the two periodic sweeps  *)
(* and the control channel of the production service worker                *)
(* (src/src/production/ProductionServiceWorker.js), with the dispatcher of *)
(* the research worker (src/sw.js).                                        *)
(*                                                                         *)
(* Strings of the program that the code inspects (URLs, header values)     *)
(* are sequences of one-character strings, so that String.includes,        *)
(* Number.toString, parseInt and the template of generateSignature are     *)
(* computed as the code computes them.                                     *)
(***************************************************************************)
EXTENDS Integers, Sequences, FiniteSets, TLC

(***************************************************************************)
(* Bounds of the model.                                                    *)
(***************************************************************************)
MaxRequests == 2   \* fetch events delivered to the worker in one behaviour
MaxTicks == 2      \* advances of the clock in one behaviour
MaxSweeps == 1     \* timer callbacks run in one behaviour
MaxMessages == 2   \* control messages delivered in one behaviour

(***************************************************************************)
(* Program constants.                                                      *)
(***************************************************************************)
maxCacheAge == 86400000
staleWhileRevalidateTime == 300000
SignatureInterval == 300000

CACHE_VERSION == "v1.0.0"
STATIC_CACHE_NAME == "static-v1.0.0"
DYNAMIC_CACHE_NAME == "dynamic-v1.0.0"
API_CACHE_NAME == "api-v1.0.0"
OLD_CACHE_NAME == "static-v0.9.0"

\* location.origin of the worker, and a foreign origin
LocationOrigin == <<"h",":","/","/","s">>
ForeignOrigin == <<"h",":","/","/","x">>

\* the value of headers.get() for an absent header, of cache.match() for a miss
Null == <<"null">>

(***************************************************************************)
(* String operations.                                                      *)
(***************************************************************************)
\* String.prototype.includes
Includes(s, sub) ==
  \E i \in 1..(Len(s) - Len(sub) + 1) : SubSeq(s, i, i + Len(sub) - 1) = sub

\* String.prototype.endsWith
EndsWith(s, sub) ==
  /\ Len(sub) <= Len(s)
  /\ SubSeq(s, Len(s) - Len(sub) + 1, Len(s)) = sub

\* index of the first occurrence of character c in s at or after i, 0 if none
RECURSIVE IndexFrom(_, _, _)
IndexFrom(s, c, i) ==
  IF i > Len(s) THEN 0
  ELSE IF s[i] = c THEN i
  ELSE IndexFrom(s, c, i + 1)

DigitChar(d) ==
  CASE d = 0 -> "0" [] d = 1 -> "1" [] d = 2 -> "2" [] d = 3 -> "3"
    [] d = 4 -> "4" [] d = 5 -> "5" [] d = 6 -> "6" [] d = 7 -> "7"
    [] d = 8 -> "8" [] d = 9 -> "9"

DigitValue(c) ==
  CASE c = "0" -> 0 [] c = "1" -> 1 [] c = "2" -> 2 [] c = "3" -> 3
    [] c = "4" -> 4 [] c = "5" -> 5 [] c = "6" -> 6 [] c = "7" -> 7
    [] c = "8" -> 8 [] c = "9" -> 9 [] OTHER -> -1

\* Number.prototype.toString of a non-negative integer
RECURSIVE toString(_)
toString(n) ==
  IF n < 10 THEN <<DigitChar(n)>>
  ELSE Append(toString(n \div 10), DigitChar(n % 10))

\* parseInt: the value of the leading decimal digits; -1 stands for NaN
RECURSIVE ParseDigits(_, _, _)
ParseDigits(s, i, acc) ==
  IF i > Len(s) \/ DigitValue(s[i]) < 0 THEN acc
  ELSE ParseDigits(s, i + 1, acc * 10 + DigitValue(s[i]))

ParseInt(s) ==
  IF Len(s) = 0 \/ DigitValue(s[1]) < 0 THEN -1 ELSE ParseDigits(s, 1, 0)

\* truthiness of a header value: null and the empty string are falsy
Truthy(h) == h # Null /\ Len(h) > 0

\* new URL(u).origin: scheme, "://" and host, up to the first "/" of the path
UrlOrigin(u) ==
  LET p == IndexFrom(u, ":", 1)
      e == IndexFrom(u, "/", p + 3)
  IN IF e = 0 THEN u ELSE SubSeq(u, 1, e - 1)

(***************************************************************************)
(* Request URLs.                                                           *)
(***************************************************************************)
Abs(path) == LocationOrigin \o path

UrlRoot == Abs(<<"/">>)
UrlIndex == Abs(<<"/","i","n","d","e","x",".","h","t","m","l">>)
UrlMainJs == Abs(<<"/","s","r","c","/","m","a","i","n",".","j","s">>)
UrlManager == Abs(<<"/","s","r","c","/","p","r","o","d","u","c","t","i","o","n","/","C","a","c","h","e","B","u","s","t","i","n","g","M","a","n","a","g","e","r",".","j","s">>)
UrlManifest == Abs(<<"/","m","a","n","i","f","e","s","t",".","j","s","o","n">>)
UrlApi == Abs(<<"/","a","p","i","/","d">>)
UrlVersioned == Abs(<<"/","p","?","v","=","2">>)

\* the files preloaded at install time
STATIC_FILES == {UrlRoot, UrlIndex, UrlMainJs, UrlManager, UrlManifest}

\* the files the research worker preloads
SwUrlCacheBuster == Abs(<<"/","s","r","c","/","u","t","i","l","s","/","C","a","c","h","e","B","u","s","t","e","r",".","j","s">>)
SwUrlMonitor == Abs(<<"/","s","r","c","/","u","t","i","l","s","/","P","e","r","f","o","r","m","a","n","c","e","M","o","n","i","t","o","r",".","j","s">>)
SwUrlManager == Abs(<<"/","s","r","c","/","s","e","r","v","i","c","e","-","w","o","r","k","e","r","s","/","S","e","r","v","i","c","e","W","o","r","k","e","r","M","a","n","a","g","e","r",".","j","s">>)
SwSTATIC_FILES ==
  {UrlRoot, UrlIndex, UrlMainJs, SwUrlCacheBuster, SwUrlMonitor, SwUrlManager, UrlManifest}

\* URLs whose classification the router is probed with
RouteUrls ==
  { UrlApi, UrlMainJs, UrlIndex, UrlVersioned, UrlManifest,
    Abs(<<"/","a","p","i","/","d",".","j","s">>),
    Abs(<<"/","a","s","s","e","t","s","/","a">>),
    Abs(<<"/","a",".","c","s","s">>),
    Abs(<<"/","a",".","j","s","x">>),
    Abs(<<"/","d","?","f","=",".","j","s">>),
    Abs(<<"/","d","?","f","=",".","c","s","s","2">>),
    Abs(<<"/","d","?","p","=","/","a","s","s","e","t","s","/">>),
    Abs(<<"/","p","?","a","=","1","&","v","=","2">>),
    Abs(<<"/","p","?","c","b","=","1">>),
    Abs(<<"/","p","?","a","=","1","&","h","=","2">>),
    Abs(<<"/","p","?","a","=","1">>),
    Abs(<<"/","a",".","j","s","?","v","=","2">>),
    ForeignOrigin \o <<"/","a","p","i","/","d">>,
    ForeignOrigin \o <<"/","a",".","j","s">> }

RouteRequests == [url : RouteUrls, method : {"GET", "POST"}]

\* the requests the policies are exercised with: one URL per policy
Requests == [url : {UrlApi, UrlMainJs, UrlVersioned, UrlIndex}, method : {"GET"}]

(***************************************************************************)
(* The router.                                                             *)
(***************************************************************************)
Intercepted_AnyMethod(request) == UrlOrigin(request.url) = LocationOrigin

\* the two early returns of the fetch listener
Intercepted(request) ==
  /\ request.method = "GET"
  /\ UrlOrigin(request.url) = LocationOrigin

IsApiUrl(url) == Includes(url, <<"/","a","p","i","/">>)

IsAssetUrl(url) ==
  \/ Includes(url, <<"/","a","s","s","e","t","s","/">>)
  \/ Includes(url, <<".","j","s">>)
  \/ Includes(url, <<".","c","s","s">>)

IsVersionedUrl(url) ==
  \/ Includes(url, <<"?","v","=">>)
  \/ Includes(url, <<"?","c","b","=">>)
  \/ Includes(url, <<"?","h","=">>)

SelectPolicy_AssetFirst(url) ==
  IF IsAssetUrl(url) THEN {"asset"}
  ELSE IF IsApiUrl(url) THEN {"api"}
  ELSE IF IsVersionedUrl(url) THEN {"versioned"}
  ELSE {"default"}

\* the handlers the production fetch listener passes to respondWith
SelectPolicy(url) ==
  IF IsApiUrl(url) THEN {"api"}
  ELSE IF IsAssetUrl(url) THEN {"asset"}
  ELSE IF IsVersionedUrl(url) THEN {"versioned"}
  ELSE {"default"}

SwIsAssetUrl(url) == Includes(url, <<"/","a","s","s","e","t","s","/">>)

\* the handlers the research worker's fetch listener passes to respondWith
SwSelectPolicy(url) ==
  IF IsApiUrl(url) THEN {"api"}
  ELSE IF SwIsAssetUrl(url) THEN {"asset"}
  ELSE IF IsVersionedUrl(url) THEN {"versioned"}
  ELSE {"default"}

(***************************************************************************)
(* State.                                                                  *)
(***************************************************************************)
VARIABLES
  worker,     \* the registered script: "production" or "sw"
  phase,      \* lifecycle of the worker: "parsed", "installed", "active"
  now,        \* Date.now()
  ticks,      \* advances of the clock so far
  caches,     \* CacheStorage: partition name -> cache object
  store,      \* cache objects: object -> (URL -> stored response)
  nreq,       \* fetch events delivered so far
  tasks,      \* the handler and background tasks suspended at an await
  puts,       \* cache.put calls that were not awaited and have not landed
  lastEvent,  \* the last fetch event and the handlers given to respondWith
  last,       \* the last outcome a handler delivered to its caller
  served,     \* API URLs for which an ok live response has been returned
  jobs,       \* the running sweeps and control-channel operations
  njobs,      \* timer callbacks and message events delivered so far
  replies,    \* the messages posted on response ports, in order
  lastJob,    \* the last sweep or operation that ended, as it ended
  buster      \* the CacheBuster of the page: its testResults, its last call

\* the state of the cache maintainer and of the control channel
maint == <<jobs, njobs, replies, lastJob>>

vars ==
  <<worker, phase, now, ticks, caches, store, nreq, tasks, puts, lastEvent,
    last, served, jobs, njobs, replies, lastJob, buster>>

\* a response; status "none" is the null of cache.match
NoResponse ==
  [status |-> "none", body |-> <<0, "none">>, ts |-> Null, sig |-> Null,
   bypass |-> Null]

\* what fetch resolves with for task id: no synthetic header is set
NetworkResponse(status, id, kind) ==
  [status |-> status, body |-> <<id, kind>>, ts |-> Null, sig |-> Null,
   bypass |-> Null]

\* what cache.addAll stores: the fetched file, no synthetic header
PreloadedResponse == NetworkResponse("ok", 0, "preload")

EmptyCache == [u \in {} |-> NoResponse]

\* the time of a cache lookup that did not happen
NoTime == 0 - 1

NoPut == [cache |-> 0, url |-> <<>>, resp |-> NoResponse, by |-> <<0, "none">>]

NoEvent == [n |-> 0, request |-> [url |-> <<>>, method |-> "none"], handlers |-> {}]

NoOutcome ==
  [id |-> 0, url |-> <<>>, policy |-> "none", outcome |-> "none",
   resp |-> NoResponse, net |-> "none", hit |-> NoResponse, looked |-> NoTime,
   at |-> NoTime, put |-> NoPut, bg |-> FALSE, prior |-> FALSE]

\* no timer callback has run and no message has been delivered
NoneStarted == [sweeps |-> 0, messages |-> 0]

\* the signatures of a message that carries none
NoSignatures == [u \in {} |-> Null]

\* the result of getCacheInfo before any partition is visited
EmptyInfo == [n \in {} |-> [size |-> 0, urls |-> {}]]

\* a sweep or a control-channel operation: kind names the function that
\* runs, url and sigs are the data of its message, names the partition
\* names still to visit, cache the partition being visited, keys the
\* requests of it still to visit, pending the cache.put it awaits, info the
\* result collected so far; t0, snapCaches and snapStore record the clock
\* and Cache Storage when it started, outcome and t1 how and when it ended,
\* solo that no other sweep or operation has run beside it, after how many
\* replies had been posted when it started
NoJob ==
  [id |-> 0, kind |-> "none", url |-> <<>>, sigs |-> NoSignatures,
   pc |-> "none", names |-> <<>>, cache |-> 0, keys |-> {}, pending |-> NoPut,
   info |-> EmptyInfo, outcome |-> "none", t0 |-> NoTime, t1 |-> NoTime,
   solo |-> FALSE, after |-> 0, n1 |-> 0, snapCaches |-> [n \in {} |-> 0], snapStore |-> << >>]

(***************************************************************************)
(* CacheBuster (src/unnamed/part_004), the strategy tester of the page.    *)
(***************************************************************************)
\* the keys of this.strategies
RegisteredStrategies ==
  { <<"t","i","m","e","s","t","a","m","p">>,
    <<"r","a","n","d","o","m","-","t","o","k","e","n">>,
    <<"c","o","n","t","e","n","t","-","h","a","s","h">>,
    <<"v","e","r","s","i","o","n","-","b","a","s","e","d">> }

\* a name this.strategies has no key for
UnknownStrategyName == <<"u","n","k","n","o","w","n","-","s","t","r","a","t","e","g","y">>

StrategyNames == RegisteredStrategies \cup {UnknownStrategyName}

\* the message of an error a strategy throws
StrategyFailure == <<"c","r","y","p","t","o"," ","i","s"," ","n","o","t"," ","d","e","f","i","n","e","d">>

\* endTime - startTime
Durations == {1, 2}

\* testResult: error is the message of the error caught, null on success
TestResult(name, success, duration, error) ==
  [strategy |-> name, success |-> success, duration |-> duration, error |-> error]

NoResult == TestResult(<< >>, FALSE, 0, Null)

\* how a call of testStrategy settled: resolved with result, or rejected
\* with an error whose message is thrown
NoCall == [name |-> << >>, state |-> "none", result |-> NoResult, thrown |-> Null]

\* the constructor: testResults is an empty Map
NewCacheBuster == [testResults |-> [n \in {} |-> NoResult], call |-> NoCall]

\* the partition a policy opens
CacheNameOf(policy) ==
  CASE policy = "api" -> API_CACHE_NAME
    [] policy = "asset" -> STATIC_CACHE_NAME
    [] policy = "versioned" -> DYNAMIC_CACHE_NAME
    [] policy = "default" -> STATIC_CACHE_NAME

\* the partition a policy of the research worker opens when it starts
\* (its API policy opens the dynamic partition only after the fetch)
SwCacheNameOf(policy) ==
  CASE policy = "api" -> DYNAMIC_CACHE_NAME
    [] policy = "asset" -> STATIC_CACHE_NAME
    [] policy = "versioned" -> DYNAMIC_CACHE_NAME
    [] policy = "default" -> STATIC_CACHE_NAME

(***************************************************************************)
(* Cache Storage.                                                          *)
(***************************************************************************)
\* caches.open(name): the cache object, created when the name is new
OpenedCache(name) ==
  IF name \in DOMAIN caches THEN caches[name] ELSE Len(store) + 1

CachesAfterOpen(name) ==
  IF name \in DOMAIN caches THEN caches ELSE (name :> (Len(store) + 1)) @@ caches

StoreAfterOpen(name) ==
  IF name \in DOMAIN caches THEN store ELSE Append(store, EmptyCache)

\* cache.match(request)
Match(cache, url) ==
  IF url \in DOMAIN store[cache] THEN store[cache][url] ELSE NoResponse

StoreAfterPut_Replacing(cache, url, resp) ==
  [store EXCEPT ![cache] = (url :> resp)]

\* the store after cache.put(request, response) has landed
StoreAfterPut(cache, url, resp) ==
  [store EXCEPT ![cache] = (url :> resp) @@ @]

\* the entries of the partition called name, empty when there is none
Partition(name) ==
  IF name \in DOMAIN caches THEN store[caches[name]] ELSE EmptyCache

\* cache.keys()
Keys(cache) == DOMAIN store[cache]

\* the store after cache.delete(request)
StoreAfterDelete(cache, url) ==
  [store EXCEPT ![cache] = [u \in (DOMAIN @) \ {url} |-> @[u]]]

\* Cache Storage after caches.delete(name) for every name of names; the
\* cache objects stay reachable for whoever holds them
CachesAfterDelete(names) == [n \in (DOMAIN caches) \ names |-> caches[n]]

\* caches.keys(): the names in the order the partitions were created
RECURSIVE NamesInOrder(_)
NamesInOrder(S) ==
  IF S = {} THEN << >>
  ELSE LET n == CHOOSE x \in S : \A y \in S : caches[x] <= caches[y]
       IN <<n>> \o NamesInOrder(S \ {n})

CachesKeys == NamesInOrder(DOMAIN caches)

(***************************************************************************)
(* Cache busting helpers.                                                  *)
(***************************************************************************)
\* `${url}_${Math.floor(Date.now() / (5 * 60 * 1000))}`
generateSignature(url) == url \o <<"_">> \o toString(now \div SignatureInterval)

shouldInvalidateCache_Inverted(url, cachedResponse) ==
  cachedResponse.sig = generateSignature(url)

shouldInvalidateCache(url, cachedResponse) ==
  cachedResponse.sig # generateSignature(url)

OlderThan_Untimed(cachedResponse, limit) ==
  \/ ~Truthy(cachedResponse.ts)
  \/ now - ParseInt(cachedResponse.ts) > limit

\* cacheTimestamp && (Date.now() - parseInt(cacheTimestamp)) > limit
OlderThan(cachedResponse, limit) ==
  /\ Truthy(cachedResponse.ts)
  /\ now - ParseInt(cachedResponse.ts) > limit

(***************************************************************************)
(* Initial state: the script has been evaluated; a partition of the        *)
(* previous version is still in Cache Storage.                             *)
(***************************************************************************)
InitFor(w) ==
  /\ worker = w
  /\ phase = "parsed"
  /\ now = 0
  /\ ticks = 0
  /\ caches = (OLD_CACHE_NAME :> 1)
  /\ store = << (UrlIndex :> PreloadedResponse) >>
  /\ nreq = 0
  /\ tasks = {}
  /\ puts = {}
  /\ lastEvent = NoEvent
  /\ last = NoOutcome
  /\ served = {}
  /\ jobs = {}
  /\ njobs = NoneStarted
  /\ replies = <<>>
  /\ lastJob = NoJob
  /\ buster = NewCacheBuster

Init == InitFor("production")

(***************************************************************************)
(* The clock.                                                              *)
(***************************************************************************)
TickSteps == {1, SignatureInterval, maxCacheAge}

Tick ==
  /\ ticks < MaxTicks
  /\ \E d \in TickSteps : now' = now + d
  /\ ticks' = ticks + 1
  /\ UNCHANGED <<worker, phase, caches, store, nreq, tasks, puts, lastEvent,
                 last, served>>
  /\ UNCHANGED maint
  /\ UNCHANGED buster

(***************************************************************************)
(* Lifecycle.                                                              *)
(***************************************************************************)
StaticFilesOf(w) == IF w = "production" THEN STATIC_FILES ELSE SwSTATIC_FILES

\* install: open the static partition and addAll(STATIC_FILES); a failure of
\* addAll is caught and leaves the partition empty
Install ==
  /\ phase = "parsed"
  /\ phase' = "installed"
  /\ caches' = CachesAfterOpen(STATIC_CACHE_NAME)
  /\ \E ok \in BOOLEAN :
       LET c == OpenedCache(STATIC_CACHE_NAME)
           opened == StoreAfterOpen(STATIC_CACHE_NAME)
       IN store' =
            IF ok
            THEN [opened EXCEPT ![c] =
                    [u \in StaticFilesOf(worker) |-> PreloadedResponse] @@ @]
            ELSE opened
  /\ UNCHANGED <<worker, now, ticks, nreq, tasks, puts, lastEvent, last, served>>
  /\ UNCHANGED maint
  /\ UNCHANGED buster

CurrentCacheNames_StaticDynamic(w) == {STATIC_CACHE_NAME, DYNAMIC_CACHE_NAME}

CurrentCacheNames(w) ==
  IF w = "production"
  THEN {STATIC_CACHE_NAME, DYNAMIC_CACHE_NAME, API_CACHE_NAME}
  ELSE {STATIC_CACHE_NAME, DYNAMIC_CACHE_NAME}

\* activate: delete every partition that is not of the current version
Activate ==
  /\ phase = "installed"
  /\ phase' = "active"
  /\ caches' = [n \in DOMAIN caches \cap CurrentCacheNames(worker) |-> caches[n]]
  /\ UNCHANGED <<worker, now, ticks, store, nreq, tasks, puts, lastEvent, last,
                 served>>
  /\ UNCHANGED maint
  /\ UNCHANGED buster

(***************************************************************************)
(* The fetch listener.                                                     *)
(***************************************************************************)
NewTask(id, policy, url, cache) ==
  [id |-> id, policy |-> policy, url |-> url,
   pc |-> IF policy = "api" THEN "fetch" ELSE "lookup",
   cache |-> cache, cached |-> NoResponse, looked |-> NoTime,
   prior |-> url \in served]

\* production worker: the listener up to the first await of the handler it
\* selects, which is the call of caches.open
FetchEvent(request) ==
  /\ worker = "production"
  /\ phase = "active"
  /\ nreq < MaxRequests
  /\ nreq' = nreq + 1
  /\ LET handlers == IF Intercepted(request) THEN SelectPolicy(request.url) ELSE {}
     IN /\ lastEvent' = [n |-> nreq + 1, request |-> request, handlers |-> handlers]
        /\ IF handlers = {}
           THEN UNCHANGED <<caches, store, tasks>>
           ELSE LET policy == CHOOSE p \in handlers : TRUE
                    name == CacheNameOf(policy)
                IN /\ caches' = CachesAfterOpen(name)
                   /\ store' = StoreAfterOpen(name)
                   /\ tasks' = tasks \cup
                        {NewTask(nreq + 1, policy, request.url, OpenedCache(name))}
  /\ UNCHANGED <<worker, phase, now, ticks, puts, last, served>>
  /\ UNCHANGED maint
  /\ UNCHANGED buster

\* research worker: its API handler calls fetch first and opens no partition
SwFetchEvent(request) ==
  /\ worker = "sw"
  /\ phase = "active"
  /\ nreq < MaxRequests
  /\ nreq' = nreq + 1
  /\ LET handlers == IF Intercepted(request) THEN SwSelectPolicy(request.url) ELSE {}
     IN /\ lastEvent' = [n |-> nreq + 1, request |-> request, handlers |-> handlers]
        /\ IF handlers = {}
           THEN UNCHANGED <<caches, store, tasks>>
           ELSE LET policy == CHOOSE p \in handlers : TRUE
                    name == SwCacheNameOf(policy)
                IN IF policy = "api"
                   THEN /\ tasks' = tasks \cup {NewTask(nreq + 1, policy, request.url, 0)}
                        /\ UNCHANGED <<caches, store>>
                   ELSE /\ caches' = CachesAfterOpen(name)
                        /\ store' = StoreAfterOpen(name)
                        /\ tasks' = tasks \cup
                             {NewTask(nreq + 1, policy, request.url, OpenedCache(name))}
  /\ UNCHANGED <<worker, phase, now, ticks, puts, last, served>>
  /\ UNCHANGED maint
  /\ UNCHANGED buster

(***************************************************************************)
(* Delivery of a handler's outcome, un-awaited writes, detached tasks.     *)
(***************************************************************************)
\* the handler of task t returns resp (outcome "live" or "cached") or throws
\* (outcome "error"); net is how its fetch ended ("none": it issued none),
\* hit the cachedResponse it found at time looked, put the cache.put it
\* issued, bg whether it started a detached refresh
Deliver(t, outcome, resp, net, hit, looked, put, bg) ==
  last' = [id |-> t.id, url |-> t.url, policy |-> t.policy, outcome |-> outcome,
           resp |-> resp, net |-> net, hit |-> hit, looked |-> looked,
           at |-> now, put |-> put, bg |-> bg, prior |-> t.prior]

\* cache.put(request, responseToCache), not awaited
PutOf(t, resp) == [cache |-> t.cache, url |-> t.url, resp |-> resp, by |-> <<t.id, t.policy>>]

\* a detached task started by the handler of t
Detached(t, kind) ==
  [t EXCEPT !.policy = kind, !.pc = "fetch", !.cached = NoResponse,
            !.looked = NoTime]

\* an un-awaited cache.put lands
PutLands(p) ==
  /\ p \in puts
  /\ puts' = puts \ {p}
  /\ store' = StoreAfterPut(p.cache, p.url, p.resp)
  /\ UNCHANGED <<worker, phase, now, ticks, caches, nreq, tasks, lastEvent, last,
                 served>>
  /\ UNCHANGED maint
  /\ UNCHANGED buster

(***************************************************************************)
(* handleApiRequestWithCacheBusting: network first.                        *)
(***************************************************************************)
ApiResponseToCache_NoTimestamp(resp) == resp

\* responseToCache of the API policy
ApiResponseToCache(resp) == [resp EXCEPT !.ts = toString(now)]

ApiFetchOk(t) ==
  /\ t \in tasks /\ t.policy = "api" /\ t.pc = "fetch"
  /\ LET networkResponse == NetworkResponse("ok", t.id, "net")
         put == PutOf(t, ApiResponseToCache(networkResponse))
     IN /\ puts' = puts \cup {put}
        /\ Deliver(t, "live", networkResponse, "ok", NoResponse, NoTime, put, FALSE)
  /\ served' = served \cup {t.url}
  /\ tasks' = tasks \ {t}
  /\ UNCHANGED <<worker, phase, now, ticks, caches, store, nreq, lastEvent>>
  /\ UNCHANGED maint
  /\ UNCHANGED buster

ApiFetchNotOk_Caching(t) ==
  /\ t \in tasks /\ t.policy = "api" /\ t.pc = "fetch"
  /\ LET networkResponse == NetworkResponse("notok", t.id, "net")
         put == PutOf(t, ApiResponseToCache(networkResponse))
     IN /\ puts' = puts \cup {put}
        /\ Deliver(t, "live", networkResponse, "notok", NoResponse, NoTime, put, FALSE)
  /\ tasks' = tasks \ {t}
  /\ UNCHANGED <<worker, phase, now, ticks, caches, store, nreq, lastEvent,
                 served>>
  /\ UNCHANGED maint
  /\ UNCHANGED buster

\* a non-ok response is returned and not cached
ApiFetchNotOk(t) ==
  /\ t \in tasks /\ t.policy = "api" /\ t.pc = "fetch"
  /\ Deliver(t, "live", NetworkResponse("notok", t.id, "net"), "notok",
             NoResponse, NoTime, NoPut, FALSE)
  /\ tasks' = tasks \ {t}
  /\ UNCHANGED <<worker, phase, now, ticks, caches, store, nreq, puts, lastEvent,
                 served>>
  /\ UNCHANGED maint
  /\ UNCHANGED buster

ApiRefreshNeeded_AtLeast(cachedResponse) ==
  /\ Truthy(cachedResponse.ts)
  /\ now - ParseInt(cachedResponse.ts) >= maxCacheAge

\* the refresh is started when the fallback entry is older than maxCacheAge
ApiRefreshNeeded(cachedResponse) == OlderThan(cachedResponse, maxCacheAge)

\* the catch branch: fall back to the api partition
ApiFallback(t, cachedResponse) ==
  IF cachedResponse # NoResponse
  THEN /\ Deliver(t, "cached", cachedResponse, "reject", cachedResponse, now,
                  NoPut, ApiRefreshNeeded(cachedResponse))
       /\ tasks' = (tasks \ {t}) \cup
            (IF ApiRefreshNeeded(cachedResponse)
             THEN {Detached(t, "refreshCacheInBackground")} ELSE {})
  ELSE /\ Deliver(t, "error", NoResponse, "reject", NoResponse, now, NoPut,
                  FALSE)
       /\ tasks' = tasks \ {t}

ApiFetchRejected(t) ==
  /\ t \in tasks /\ t.policy = "api" /\ t.pc = "fetch"
  /\ ApiFallback(t, Match(t.cache, t.url))
  /\ UNCHANGED <<worker, phase, now, ticks, caches, store, nreq, puts, lastEvent,
                 served>>
  /\ UNCHANGED maint
  /\ UNCHANGED buster

(***************************************************************************)
(* handleAssetRequestWithSignatureInvalidation: cache first.               *)
(***************************************************************************)
\* the cached response is returned without a fetch
AssetServeCached(url, cachedResponse) ==
  /\ cachedResponse # NoResponse
  /\ ~shouldInvalidateCache(url, cachedResponse)

AssetLookup(t) ==
  /\ t \in tasks /\ t.policy = "asset" /\ t.pc = "lookup"
  /\ LET cachedResponse == Match(t.cache, t.url)
     IN IF AssetServeCached(t.url, cachedResponse)
        THEN /\ Deliver(t, "cached", cachedResponse, "none", cachedResponse,
                        now, NoPut, FALSE)
             /\ tasks' = tasks \ {t}
        ELSE /\ tasks' = (tasks \ {t}) \cup
                  {[t EXCEPT !.pc = "fetch", !.cached = cachedResponse,
                             !.looked = now]}
             /\ UNCHANGED last
  /\ UNCHANGED <<worker, phase, now, ticks, caches, store, nreq, puts, lastEvent,
                 served>>
  /\ UNCHANGED maint
  /\ UNCHANGED buster

AssetResponseToCache_NoSignature(url, resp) == [resp EXCEPT !.ts = toString(now)]

\* responseToCache of the asset policy
AssetResponseToCache(url, resp) ==
  [resp EXCEPT !.sig = generateSignature(url), !.ts = toString(now)]

AssetFetchOk(t) ==
  /\ t \in tasks /\ t.policy = "asset" /\ t.pc = "fetch"
  /\ LET networkResponse == NetworkResponse("ok", t.id, "net")
         put == PutOf(t, AssetResponseToCache(t.url, networkResponse))
     IN /\ puts' = puts \cup {put}
        /\ Deliver(t, "live", networkResponse, "ok", t.cached, t.looked, put, FALSE)
  /\ tasks' = tasks \ {t}
  /\ UNCHANGED <<worker, phase, now, ticks, caches, store, nreq, lastEvent, served>>
  /\ UNCHANGED maint
  /\ UNCHANGED buster

AssetFetchNotOk(t) ==
  /\ t \in tasks /\ t.policy = "asset" /\ t.pc = "fetch"
  /\ Deliver(t, "live", NetworkResponse("notok", t.id, "net"), "notok", t.cached,
             t.looked, NoPut, FALSE)
  /\ tasks' = tasks \ {t}
  /\ UNCHANGED <<worker, phase, now, ticks, caches, store, nreq, puts, lastEvent,
                 served>>
  /\ UNCHANGED maint
  /\ UNCHANGED buster

AssetFallback_AlwaysThrow(t) ==
  Deliver(t, "error", NoResponse, "reject", t.cached, t.looked, NoPut, FALSE)

\* the catch branch: the cachedResponse of the lookup, or the error
AssetFallback(t) ==
  IF t.cached # NoResponse
  THEN Deliver(t, "cached", t.cached, "reject", t.cached, t.looked, NoPut, FALSE)
  ELSE Deliver(t, "error", NoResponse, "reject", t.cached, t.looked, NoPut, FALSE)

AssetFetchRejected(t) ==
  /\ t \in tasks /\ t.policy = "asset" /\ t.pc = "fetch"
  /\ AssetFallback(t)
  /\ tasks' = tasks \ {t}
  /\ UNCHANGED <<worker, phase, now, ticks, caches, store, nreq, puts, lastEvent,
                 served>>
  /\ UNCHANGED maint
  /\ UNCHANGED buster

(***************************************************************************)
(* handleVersionedRequestWithConditionalBypass: stale while revalidate.    *)
(***************************************************************************)
VersionedServeCached_IfFresh(cachedResponse) ==
  /\ cachedResponse # NoResponse
  /\ ~OlderThan(cachedResponse, staleWhileRevalidateTime)

\* if (cachedResponse): the entry is returned whatever its age
VersionedServeCached(cachedResponse) == cachedResponse # NoResponse

VersionedLookup(t) ==
  /\ t \in tasks /\ t.policy = "versioned" /\ t.pc = "lookup"
  /\ LET cachedResponse == Match(t.cache, t.url)
     IN IF VersionedServeCached(cachedResponse)
        THEN /\ Deliver(t, "cached", cachedResponse, "none", cachedResponse,
                        now, NoPut, TRUE)
             /\ tasks' = (tasks \ {t}) \cup
                  {Detached(t, "updateCacheInBackgroundWithConditionalBypass")}
        ELSE /\ tasks' = (tasks \ {t}) \cup
                  {[t EXCEPT !.pc = "fetch", !.looked = now]}
             /\ UNCHANGED last
  /\ UNCHANGED <<worker, phase, now, ticks, caches, store, nreq, puts, lastEvent,
                 served>>
  /\ UNCHANGED maint
  /\ UNCHANGED buster

\* responseToCache of the versioned policy and of its background update
BypassResponseToCache(resp) ==
  [resp EXCEPT !.ts = toString(now), !.bypass = <<"t","r","u","e">>]

VersionedFetchOk(t) ==
  /\ t \in tasks /\ t.policy = "versioned" /\ t.pc = "fetch"
  /\ LET networkResponse == NetworkResponse("ok", t.id, "net")
         put == PutOf(t, BypassResponseToCache(networkResponse))
     IN /\ puts' = puts \cup {put}
        /\ Deliver(t, "live", networkResponse, "ok", NoResponse, t.looked, put, FALSE)
  /\ tasks' = tasks \ {t}
  /\ UNCHANGED <<worker, phase, now, ticks, caches, store, nreq, lastEvent, served>>
  /\ UNCHANGED maint
  /\ UNCHANGED buster

VersionedFetchNotOk(t) ==
  /\ t \in tasks /\ t.policy = "versioned" /\ t.pc = "fetch"
  /\ Deliver(t, "live", NetworkResponse("notok", t.id, "net"), "notok",
             NoResponse, t.looked, NoPut, FALSE)
  /\ tasks' = tasks \ {t}
  /\ UNCHANGED <<worker, phase, now, ticks, caches, store, nreq, puts, lastEvent,
                 served>>
  /\ UNCHANGED maint
  /\ UNCHANGED buster

VersionedFetchRejected(t) ==
  /\ t \in tasks /\ t.policy = "versioned" /\ t.pc = "fetch"
  /\ Deliver(t, "error", NoResponse, "reject", NoResponse, t.looked, NoPut, FALSE)
  /\ tasks' = tasks \ {t}
  /\ UNCHANGED <<worker, phase, now, ticks, caches, store, nreq, puts, lastEvent,
                 served>>
  /\ UNCHANGED maint
  /\ UNCHANGED buster

(***************************************************************************)
(* handleDefaultRequestWithStaleWhileRevalidate.                           *)
(***************************************************************************)
DefaultIsStale_AtLeast(cachedResponse) ==
  /\ Truthy(cachedResponse.ts)
  /\ now - ParseInt(cachedResponse.ts) >= staleWhileRevalidateTime

\* isStale
DefaultIsStale(cachedResponse) == OlderThan(cachedResponse, staleWhileRevalidateTime)

DefaultLookup(t) ==
  /\ t \in tasks /\ t.policy = "default" /\ t.pc = "lookup"
  /\ LET cachedResponse == Match(t.cache, t.url)
     IN IF cachedResponse # NoResponse
        THEN /\ Deliver(t, "cached", cachedResponse, "none", cachedResponse,
                        now, NoPut, DefaultIsStale(cachedResponse))
             /\ tasks' = (tasks \ {t}) \cup
                  (IF DefaultIsStale(cachedResponse)
                   THEN {Detached(t, "updateCacheInBackground")} ELSE {})
        ELSE /\ tasks' = (tasks \ {t}) \cup
                  {[t EXCEPT !.pc = "fetch", !.looked = now]}
             /\ UNCHANGED last
  /\ UNCHANGED <<worker, phase, now, ticks, caches, store, nreq, puts, lastEvent,
                 served>>
  /\ UNCHANGED maint
  /\ UNCHANGED buster

\* responseToCache of the default policy and of the plain background writes
StampedResponseToCache(resp) == [resp EXCEPT !.ts = toString(now)]

DefaultFetchOk(t) ==
  /\ t \in tasks /\ t.policy = "default" /\ t.pc = "fetch"
  /\ LET networkResponse == NetworkResponse("ok", t.id, "net")
         put == PutOf(t, StampedResponseToCache(networkResponse))
     IN /\ puts' = puts \cup {put}
        /\ Deliver(t, "live", networkResponse, "ok", NoResponse, t.looked, put, FALSE)
  /\ tasks' = tasks \ {t}
  /\ UNCHANGED <<worker, phase, now, ticks, caches, store, nreq, lastEvent, served>>
  /\ UNCHANGED maint
  /\ UNCHANGED buster

DefaultFetchNotOk(t) ==
  /\ t \in tasks /\ t.policy = "default" /\ t.pc = "fetch"
  /\ Deliver(t, "live", NetworkResponse("notok", t.id, "net"), "notok",
             NoResponse, t.looked, NoPut, FALSE)
  /\ tasks' = tasks \ {t}
  /\ UNCHANGED <<worker, phase, now, ticks, caches, store, nreq, puts, lastEvent,
                 served>>
  /\ UNCHANGED maint
  /\ UNCHANGED buster

DefaultFetchRejected(t) ==
  /\ t \in tasks /\ t.policy = "default" /\ t.pc = "fetch"
  /\ Deliver(t, "error", NoResponse, "reject", NoResponse, t.looked, NoPut, FALSE)
  /\ tasks' = tasks \ {t}
  /\ UNCHANGED <<worker, phase, now, ticks, caches, store, nreq, puts, lastEvent,
                 served>>
  /\ UNCHANGED maint
  /\ UNCHANGED buster

(***************************************************************************)
(* The detached tasks: refreshCacheInBackground,                           *)
(* updateCacheInBackgroundWithConditionalBypass, updateCacheInBackground.  *)
(***************************************************************************)
BackgroundKinds ==
  {"refreshCacheInBackground", "updateCacheInBackgroundWithConditionalBypass",
   "updateCacheInBackground"}

BackgroundResponseToCache(kind, resp) ==
  IF kind = "updateCacheInBackgroundWithConditionalBypass"
  THEN BypassResponseToCache(resp)
  ELSE StampedResponseToCache(resp)

BackgroundFetchOk(t) ==
  /\ t \in tasks /\ t.policy \in BackgroundKinds /\ t.pc = "fetch"
  /\ puts' = puts \cup
       {PutOf(t, BackgroundResponseToCache(t.policy, NetworkResponse("ok", t.id, "bg")))}
  /\ tasks' = tasks \ {t}
  /\ UNCHANGED <<worker, phase, now, ticks, caches, store, nreq, lastEvent, last,
                 served>>
  /\ UNCHANGED maint
  /\ UNCHANGED buster

\* a non-ok response is dropped, a rejection is caught and logged
BackgroundFetchFailed(t) ==
  /\ t \in tasks /\ t.policy \in BackgroundKinds /\ t.pc = "fetch"
  /\ tasks' = tasks \ {t}
  /\ UNCHANGED <<worker, phase, now, ticks, caches, store, nreq, puts, lastEvent,
                 last, served>>
  /\ UNCHANGED maint
  /\ UNCHANGED buster

(***************************************************************************)
(* Sweeps and control-channel operations: what they share.                 *)
(***************************************************************************)
\* the identity of the next sweep or operation
NextJobId == njobs.sweeps + njobs.messages + 1

\* a sweep or an operation starts: its first statement is caches.keys()
NewJob(id, kind, url, sigs) ==
  [NoJob EXCEPT !.id = id, !.kind = kind, !.url = url, !.sigs = sigs,
                !.pc = "open", !.names = CachesKeys, !.outcome = "running",
                !.t0 = now, !.solo = (jobs = {}), !.after = Len(replies),
                !.snapCaches = caches, !.snapStore = store]

\* the jobs after job j has started beside the running ones
JobsWith(j) == {[k EXCEPT !.solo = FALSE] : k \in jobs} \cup {j}

\* the loop of j leaves a partition when no request of it is left
Advance(j) ==
  IF j.keys = {}
  THEN [j EXCEPT !.names = Tail(@), !.pc = "open", !.cache = 0]
  ELSE j

\* j ends with outcome: "done" when its promise resolves, "failed" when a
\* cache operation inside it rejects or throws; n1 is the number of fetch
\* events the worker has received by then
Ended(j, outcome) ==
  /\ jobs' = jobs \ {j}
  /\ lastJob' = [j EXCEPT !.outcome = outcome, !.t1 = now, !.n1 = nreq,
                          !.pc = "none",
                          !.names = << >>, !.cache = 0, !.keys = {},
                          !.pending = NoPut]

(***************************************************************************)
(* performPeriodicCacheInvalidation and                                    *)
(* performPeriodicSignatureInvalidation, started by their timers.          *)
(***************************************************************************)
SweepKinds == {"age", "signature"}

\* a callback of setInterval runs
SweepTimer(kind) ==
  /\ phase = "active"
  /\ njobs.sweeps < MaxSweeps
  /\ njobs' = [njobs EXCEPT !.sweeps = @ + 1]
  /\ jobs' = JobsWith(NewJob(NextJobId, kind, << >>, NoSignatures))
  /\ UNCHANGED <<worker, phase, now, ticks, caches, store, nreq, tasks, puts,
                 lastEvent, last, served, replies, lastJob>>
  /\ UNCHANGED buster

\* caches.open(cacheName) and cache.keys() for the next partition name; a
\* rejection is caught outside both loops and ends the sweep
SweepOpen(j) ==
  /\ j \in jobs /\ j.kind \in SweepKinds /\ j.pc = "open"
  /\ IF j.names = << >>
     THEN /\ Ended(j, "done")
          /\ UNCHANGED <<caches, store>>
     ELSE \E ok \in BOOLEAN :
            IF ok
            THEN LET name == Head(j.names)
                     cache == OpenedCache(name)
                 IN /\ caches' = CachesAfterOpen(name)
                    /\ store' = StoreAfterOpen(name)
                    /\ jobs' = (jobs \ {j}) \cup
                         {Advance([j EXCEPT !.cache = cache,
                                            !.keys = DOMAIN StoreAfterOpen(name)[cache],
                                            !.pc = "entry"])}
                    /\ UNCHANGED lastJob
            ELSE /\ Ended(j, "failed")
                 /\ UNCHANGED <<caches, store>>
  /\ UNCHANGED <<worker, phase, now, ticks, nreq, tasks, puts, lastEvent, last,
                 served, njobs, replies>>
  /\ UNCHANGED buster

AgeExpired_AtLeast(response) ==
  /\ Truthy(response.ts)
  /\ now - ParseInt(response.ts) >= maxCacheAge

\* the test of the age sweep
AgeExpired(response) == OlderThan(response, maxCacheAge)

SignatureChanged_NoGuard(url, response) ==
  response.sig # generateSignature(url)

\* the test of the signature sweep
SignatureChanged(url, response) ==
  /\ Truthy(response.sig)
  /\ response.sig # generateSignature(url)

\* one turn of the inner loop: cache.match(request), the test, and
\* cache.delete(request) when it is met; a rejection, or reading the headers
\* of an entry that is no longer there, is caught outside both loops
SweepEntry(j) ==
  /\ j \in jobs /\ j.kind \in SweepKinds /\ j.pc = "entry"
  /\ \E u \in j.keys, ok \in BOOLEAN :
       LET response == Match(j.cache, u)
       IN IF ~ok \/ response = NoResponse
          THEN /\ Ended(j, "failed")
               /\ UNCHANGED store
          ELSE LET evict == IF j.kind = "age" THEN AgeExpired(response)
                            ELSE SignatureChanged(u, response)
               IN /\ store' = IF evict THEN StoreAfterDelete(j.cache, u) ELSE store
                  /\ jobs' = (jobs \ {j}) \cup {Advance([j EXCEPT !.keys = @ \ {u}])}
                  /\ UNCHANGED lastJob
  /\ UNCHANGED <<worker, phase, now, ticks, caches, nreq, tasks, puts, lastEvent,
                 last, served, njobs, replies>>
  /\ UNCHANGED buster

(***************************************************************************)
(* The message listener and the four operations of the control channel.    *)
(***************************************************************************)
OperationTypes ==
  {"GET_CACHE_INFO", "CLEAR_CACHES", "INVALIDATE_CACHE", "UPDATE_CACHE_SIGNATURES"}

\* a URL no request has asked for
UrlUncached == Abs(<<"/","x">>)

\* the signatures of the UPDATE_CACHE_SIGNATURES messages
SuppliedSignatures == (UrlMainJs :> <<"s","i","g","-","4","2">>)

Message(type, url, sigs) == [type |-> type, url |-> url, sigs |-> sigs]

InvalidateMessages ==
  {Message("INVALIDATE_CACHE", u, NoSignatures) : u \in {UrlApi, UrlUncached}}

UpdateMessages == {Message("UPDATE_CACHE_SIGNATURES", << >>, SuppliedSignatures)}

ClearMessages ==
  {Message(t, << >>, NoSignatures) : t \in {"CLEAR_CACHES", "GET_CACHE_INFO"}}

\* messages the switch has no reply for: SKIP_WAITING and an unknown type
SilentMessages ==
  {Message(t, << >>, NoSignatures) : t \in {"SKIP_WAITING", "PING"}}

Messages == InvalidateMessages \cup UpdateMessages \cup ClearMessages \cup SilentMessages

\* the listener: the switch on the type calls the operation, whose first
\* statement is caches.keys(); SKIP_WAITING calls skipWaiting and any other
\* type falls through
MessageEvent(m) ==
  /\ phase = "active"
  /\ njobs.messages < MaxMessages
  /\ njobs' = [njobs EXCEPT !.messages = @ + 1]
  /\ IF m.type \in OperationTypes
     THEN /\ jobs' = JobsWith([NewJob(NextJobId, m.type, m.url, m.sigs) EXCEPT
                                !.pc = IF m.type = "CLEAR_CACHES" THEN "deleteAll"
                                       ELSE "open"])
          /\ UNCHANGED lastJob
     ELSE /\ lastJob' = [NoJob EXCEPT !.id = NextJobId, !.kind = m.type,
                                      !.outcome = "ignored", !.t0 = now, !.t1 = now,
                                      !.after = Len(replies)]
          /\ UNCHANGED jobs
  /\ UNCHANGED <<worker, phase, now, ticks, caches, store, nreq, tasks, puts,
                 lastEvent, last, served, replies>>
  /\ UNCHANGED buster

\* event.ports[0].postMessage({ type, data }) in the then of the operation
Reply(j, type) ==
  replies' = Append(replies, [to |-> j.id, type |-> type, url |-> j.url,
                              info |-> j.info])

\* getCacheInfo: one turn of its loop, or its end and the reply
GetCacheInfoStep(j) ==
  /\ j \in jobs /\ j.kind = "GET_CACHE_INFO" /\ j.pc = "open"
  /\ IF j.names = << >>
     THEN /\ Ended(j, "done")
          /\ Reply(j, "CACHE_INFO")
          /\ UNCHANGED <<caches, store>>
     ELSE \E ok \in BOOLEAN :
            IF ok
            THEN LET name == Head(j.names)
                     keys == DOMAIN StoreAfterOpen(name)[OpenedCache(name)]
                 IN /\ caches' = CachesAfterOpen(name)
                    /\ store' = StoreAfterOpen(name)
                    /\ jobs' = (jobs \ {j}) \cup
                         {[j EXCEPT !.names = Tail(@),
                                    !.info = (name :> [size |-> Cardinality(keys),
                                                       urls |-> keys]) @@ @]}
                    /\ UNCHANGED <<lastJob, replies>>
            ELSE /\ Ended(j, "failed")
                 /\ UNCHANGED <<caches, store, replies>>
  /\ UNCHANGED <<worker, phase, now, ticks, nreq, tasks, puts, lastEvent, last,
                 served, njobs>>
  /\ UNCHANGED buster

ClearTargets_OldOnly(names) ==
  {names[i] : i \in DOMAIN names} \ CurrentCacheNames(worker)

\* the partitions clearAllCaches deletes: every name caches.keys() gave
ClearTargets(names) == {names[i] : i \in DOMAIN names}

\* clearAllCaches: Promise.all of caches.delete(cacheName), then the reply;
\* when one delete rejects the others still take effect and no reply is sent
ClearAllCachesStep(j) ==
  /\ j \in jobs /\ j.kind = "CLEAR_CACHES" /\ j.pc = "deleteAll"
  /\ \E ok \in BOOLEAN :
       IF ok
       THEN /\ caches' = CachesAfterDelete(ClearTargets(j.names))
            /\ Ended(j, "done")
            /\ Reply(j, "CACHES_CLEARED")
       ELSE /\ \E n \in ClearTargets(j.names) :
                 caches' = CachesAfterDelete(ClearTargets(j.names) \ {n})
            /\ Ended(j, "failed")
            /\ UNCHANGED replies
  /\ UNCHANGED <<worker, phase, now, ticks, store, nreq, tasks, puts, lastEvent,
                 last, served, njobs>>
  /\ UNCHANGED buster

InvalidateIn_StaticOnly(cache, url) ==
  IF STATIC_CACHE_NAME \in DOMAIN caches /\ cache = caches[STATIC_CACHE_NAME]
  THEN StoreAfterDelete(cache, url)
  ELSE store

\* await cache.delete(url) in the partition just opened
InvalidateIn(cache, url) == StoreAfterDelete(cache, url)

\* invalidateCache: one turn of its loop (caches.open, cache.delete), or its
\* end and the reply
InvalidateCacheStep(j) ==
  /\ j \in jobs /\ j.kind = "INVALIDATE_CACHE" /\ j.pc = "open"
  /\ IF j.names = << >>
     THEN /\ Ended(j, "done")
          /\ Reply(j, "CACHE_INVALIDATED")
          /\ UNCHANGED <<caches, store>>
     ELSE \E ok \in BOOLEAN :
            IF ok
            THEN LET name == Head(j.names)
                     cache == OpenedCache(name)
                     opened == StoreAfterOpen(name)
                 IN /\ caches' = CachesAfterOpen(name)
                    /\ store' = IF cache > Len(store) THEN opened
                                ELSE InvalidateIn(cache, j.url)
                    /\ jobs' = (jobs \ {j}) \cup {[j EXCEPT !.names = Tail(@)]}
                    /\ UNCHANGED <<lastJob, replies>>
            ELSE /\ Ended(j, "failed")
                 /\ UNCHANGED <<caches, store, replies>>
  /\ UNCHANGED <<worker, phase, now, ticks, nreq, tasks, puts, lastEvent, last,
                 served, njobs>>
  /\ UNCHANGED buster

\* updateCacheSignatures: caches.open(cacheName) and cache.keys() for the
\* next partition name, or its end and the reply
UpdateSignaturesOpen(j) ==
  /\ j \in jobs /\ j.kind = "UPDATE_CACHE_SIGNATURES" /\ j.pc = "open"
  /\ IF j.names = << >>
     THEN /\ Ended(j, "done")
          /\ Reply(j, "CACHE_SIGNATURES_UPDATED")
          /\ UNCHANGED <<caches, store>>
     ELSE \E ok \in BOOLEAN :
            IF ok
            THEN LET name == Head(j.names)
                     cache == OpenedCache(name)
                 IN /\ caches' = CachesAfterOpen(name)
                    /\ store' = StoreAfterOpen(name)
                    /\ jobs' = (jobs \ {j}) \cup
                         {Advance([j EXCEPT !.cache = cache,
                                            !.keys = DOMAIN StoreAfterOpen(name)[cache],
                                            !.pc = "entry"])}
                    /\ UNCHANGED <<lastJob, replies>>
            ELSE /\ Ended(j, "failed")
                 /\ UNCHANGED <<caches, store, replies>>
  /\ UNCHANGED <<worker, phase, now, ticks, nreq, tasks, puts, lastEvent, last,
                 served, njobs>>
  /\ UNCHANGED buster

UpdatedResponse_KeysOnly(signatures, url, response) ==
  IF url \in DOMAIN signatures
  THEN [response EXCEPT !.sig = signatures[url], !.ts = toString(now)]
  ELSE response

\* newResponse: signatures[request.url] || generateSignature(request.url),
\* and Date.now().toString()
UpdatedResponse(signatures, url, response) ==
  [response EXCEPT
     !.sig = IF url \in DOMAIN signatures /\ Truthy(signatures[url])
             THEN signatures[url] ELSE generateSignature(url),
     !.ts = toString(now)]

\* one turn of the inner loop up to its await: cache.match(request) and,
\* for an entry that is there, cache.put(request, newResponse) issued
UpdateSignaturesEntry(j) ==
  /\ j \in jobs /\ j.kind = "UPDATE_CACHE_SIGNATURES" /\ j.pc = "entry"
  /\ \E u \in j.keys :
       LET response == Match(j.cache, u)
       IN jobs' = (jobs \ {j}) \cup
            {IF response = NoResponse
             THEN Advance([j EXCEPT !.keys = @ \ {u}])
             ELSE [j EXCEPT !.pc = "put",
                            !.pending = [cache |-> j.cache, url |-> u,
                                         resp |-> UpdatedResponse(j.sigs, u, response),
                                         by |-> <<j.id, j.kind>>]]}
  /\ UNCHANGED <<worker, phase, now, ticks, caches, store, nreq, tasks, puts,
                 lastEvent, last, served, njobs, replies, lastJob>>
  /\ UNCHANGED buster

\* the awaited cache.put lands, or rejects and ends the operation
UpdateSignaturesPut(j) ==
  /\ j \in jobs /\ j.kind = "UPDATE_CACHE_SIGNATURES" /\ j.pc = "put"
  /\ \E ok \in BOOLEAN :
       IF ok
       THEN /\ store' = StoreAfterPut(j.pending.cache, j.pending.url, j.pending.resp)
            /\ jobs' = (jobs \ {j}) \cup
                 {Advance([j EXCEPT !.pc = "entry", !.keys = @ \ {j.pending.url},
                                    !.pending = NoPut])}
            /\ UNCHANGED lastJob
       ELSE /\ Ended(j, "failed")
            /\ UNCHANGED store
  /\ UNCHANGED <<worker, phase, now, ticks, caches, nreq, tasks, puts, lastEvent,
                 last, served, njobs, replies>>
  /\ UNCHANGED buster

(***************************************************************************)
(* CacheBuster.testStrategy.                                               *)
(***************************************************************************)
\* `Unknown strategy: ${strategyName}`
UnknownStrategyMessage(strategyName) ==
  <<"U","n","k","n","o","w","n"," ","s","t","r","a","t","e","g","y",":"," ">> \o strategyName

\* testStrategy(strategyName): a name without strategy throws before the
\* try block, so the promise of the async function rejects; otherwise the
\* strategy runs, and the result, of success or of the error caught, is
\* stored in testResults and returned
testStrategy(strategyName) ==
  /\ IF strategyName \notin RegisteredStrategies
     THEN buster' = [buster EXCEPT
                       !.call = [name |-> strategyName, state |-> "rejected",
                                 result |-> NoResult,
                                 thrown |-> UnknownStrategyMessage(strategyName)]]
     ELSE \E ok \in BOOLEAN, duration \in Durations :
            LET testResult ==
                  TestResult(strategyName, ok, duration,
                             IF ok THEN Null ELSE StrategyFailure)
            IN buster' = [testResults |-> (strategyName :> testResult) @@ buster.testResults,
                          call |-> [name |-> strategyName, state |-> "resolved",
                                    result |-> testResult, thrown |-> Null]]
  /\ UNCHANGED <<worker, phase, now, ticks, caches, store, nreq, tasks, puts,
                 lastEvent, last, served, jobs, njobs, replies, lastJob>>

(***************************************************************************)
(* Specifications.                                                         *)
(***************************************************************************)
Next ==
  \/ Tick
  \/ Install
  \/ Activate
  \/ \E r \in Requests : FetchEvent(r)
  \/ \E p \in puts : PutLands(p)
  \/ \E t \in tasks : ApiFetchOk(t)
  \/ \E t \in tasks : ApiFetchNotOk(t)
  \/ \E t \in tasks : ApiFetchRejected(t)
  \/ \E t \in tasks : AssetLookup(t)
  \/ \E t \in tasks : AssetFetchOk(t)
  \/ \E t \in tasks : AssetFetchNotOk(t)
  \/ \E t \in tasks : AssetFetchRejected(t)
  \/ \E t \in tasks : VersionedLookup(t)
  \/ \E t \in tasks : VersionedFetchOk(t)
  \/ \E t \in tasks : VersionedFetchNotOk(t)
  \/ \E t \in tasks : VersionedFetchRejected(t)
  \/ \E t \in tasks : DefaultLookup(t)
  \/ \E t \in tasks : DefaultFetchOk(t)
  \/ \E t \in tasks : DefaultFetchNotOk(t)
  \/ \E t \in tasks : DefaultFetchRejected(t)
  \/ \E t \in tasks : BackgroundFetchOk(t)
  \/ \E t \in tasks : BackgroundFetchFailed(t)

Spec == Init /\ [][Next]_vars

\* the worker serving API requests only
ApiRequests == [url : {UrlApi}, method : {"GET"}]

NextApi ==
  \/ Tick
  \/ Install
  \/ Activate
  \/ \E r \in ApiRequests : FetchEvent(r)
  \/ \E p \in puts : PutLands(p)
  \/ \E t \in tasks : ApiFetchOk(t)
  \/ \E t \in tasks : ApiFetchNotOk(t)
  \/ \E t \in tasks : ApiFetchRejected(t)
  \/ \E t \in tasks : BackgroundFetchOk(t)
  \/ \E t \in tasks : BackgroundFetchFailed(t)

SpecApi == Init /\ [][NextApi]_vars

\* the worker serving asset requests only
AssetRequests == [url : {UrlMainJs}, method : {"GET"}]

NextAsset ==
  \/ Tick
  \/ Install
  \/ Activate
  \/ \E r \in AssetRequests : FetchEvent(r)
  \/ \E p \in puts : PutLands(p)
  \/ \E t \in tasks : AssetLookup(t)
  \/ \E t \in tasks : AssetFetchOk(t)
  \/ \E t \in tasks : AssetFetchNotOk(t)
  \/ \E t \in tasks : AssetFetchRejected(t)

SpecAsset == Init /\ [][NextAsset]_vars

\* the worker serving versioned requests only
VersionedRequests == [url : {UrlVersioned}, method : {"GET"}]

NextVersioned ==
  \/ Tick
  \/ Install
  \/ Activate
  \/ \E r \in VersionedRequests : FetchEvent(r)
  \/ \E p \in puts : PutLands(p)
  \/ \E t \in tasks : VersionedLookup(t)
  \/ \E t \in tasks : VersionedFetchOk(t)
  \/ \E t \in tasks : VersionedFetchNotOk(t)
  \/ \E t \in tasks : VersionedFetchRejected(t)
  \/ \E t \in tasks : BackgroundFetchOk(t)
  \/ \E t \in tasks : BackgroundFetchFailed(t)

SpecVersioned == Init /\ [][NextVersioned]_vars

\* the worker serving requests of the default policy only
DefaultRequests == [url : {UrlIndex}, method : {"GET"}]

NextDefault ==
  \/ Tick
  \/ Install
  \/ Activate
  \/ \E r \in DefaultRequests : FetchEvent(r)
  \/ \E p \in puts : PutLands(p)
  \/ \E t \in tasks : DefaultLookup(t)
  \/ \E t \in tasks : DefaultFetchOk(t)
  \/ \E t \in tasks : DefaultFetchNotOk(t)
  \/ \E t \in tasks : DefaultFetchRejected(t)
  \/ \E t \in tasks : BackgroundFetchOk(t)
  \/ \E t \in tasks : BackgroundFetchFailed(t)

SpecDefault == Init /\ [][NextDefault]_vars

\* the active production worker with entries in its three partitions: the
\* preload of install, an API response stored at time 0, an asset and a
\* versioned response stored at time 2
MaintInit ==
  /\ worker = "production"
  /\ phase = "active"
  /\ now = 2
  /\ ticks = 0
  /\ caches = (STATIC_CACHE_NAME :> 1) @@ (API_CACHE_NAME :> 2) @@
              (DYNAMIC_CACHE_NAME :> 3)
  /\ store =
       << (UrlIndex :> PreloadedResponse) @@
          (UrlMainJs :> [NetworkResponse("ok", 0, "net") EXCEPT
                           !.sig = UrlMainJs \o <<"_">> \o toString(2 \div SignatureInterval),
                           !.ts = toString(2)]),
          (UrlApi :> [NetworkResponse("ok", 0, "net") EXCEPT !.ts = toString(0)]),
          (UrlVersioned :> [NetworkResponse("ok", 0, "net") EXCEPT
                              !.ts = toString(2), !.bypass = <<"t","r","u","e">>]) >>
  /\ nreq = 0
  /\ tasks = {}
  /\ puts = {}
  /\ lastEvent = NoEvent
  /\ last = NoOutcome
  /\ served = {}
  /\ jobs = {}
  /\ njobs = NoneStarted
  /\ replies = << >>
  /\ lastJob = NoJob
  /\ buster = NewCacheBuster

\* the two sweeps and the clock
NextSweep ==
  \/ Tick
  \/ \E kind \in SweepKinds : SweepTimer(kind)
  \/ \E j \in jobs : SweepOpen(j)
  \/ \E j \in jobs : SweepEntry(j)

SpecSweep == MaintInit /\ [][NextSweep]_vars

\* INVALIDATE_CACHE messages only
NextInvalidate ==
  \/ \E m \in InvalidateMessages : MessageEvent(m)
  \/ \E j \in jobs : InvalidateCacheStep(j)

SpecInvalidate == MaintInit /\ [][NextInvalidate]_vars

\* the sweeps beside INVALIDATE_CACHE messages
NextSweepInvalidate ==
  \/ \E kind \in SweepKinds : SweepTimer(kind)
  \/ \E j \in jobs : SweepOpen(j)
  \/ \E j \in jobs : SweepEntry(j)
  \/ \E m \in InvalidateMessages : MessageEvent(m)
  \/ \E j \in jobs : InvalidateCacheStep(j)

SpecSweepInvalidate == MaintInit /\ [][NextSweepInvalidate]_vars

\* the four policies at work, the clock advancing while no request, refresh
\* or write is under way
NextPolicies ==
  \/ (phase = "active" /\ tasks = {} /\ puts = {}) /\ Tick
  \/ Install
  \/ Activate
  \/ \E r \in Requests : FetchEvent(r)
  \/ \E p \in puts : PutLands(p)
  \/ \E t \in tasks : ApiFetchOk(t)
  \/ \E t \in tasks : ApiFetchNotOk(t)
  \/ \E t \in tasks : ApiFetchRejected(t)
  \/ \E t \in tasks : AssetLookup(t)
  \/ \E t \in tasks : AssetFetchOk(t)
  \/ \E t \in tasks : AssetFetchNotOk(t)
  \/ \E t \in tasks : AssetFetchRejected(t)
  \/ \E t \in tasks : VersionedLookup(t)
  \/ \E t \in tasks : VersionedFetchOk(t)
  \/ \E t \in tasks : VersionedFetchNotOk(t)
  \/ \E t \in tasks : VersionedFetchRejected(t)
  \/ \E t \in tasks : DefaultLookup(t)
  \/ \E t \in tasks : DefaultFetchOk(t)
  \/ \E t \in tasks : DefaultFetchNotOk(t)
  \/ \E t \in tasks : DefaultFetchRejected(t)
  \/ \E t \in tasks : BackgroundFetchOk(t)
  \/ \E t \in tasks : BackgroundFetchFailed(t)

SpecPolicies == Init /\ [][NextPolicies]_vars

\* requests for the preloaded page beside the sweeps: one request and one
\* sweep at a time, the clock advancing while neither is under way; the page
\* is in the static partition, so the lookup of the default policy finds it
NextDefaultSweep ==
  \/ (tasks = {} /\ jobs = {}) /\ Tick
  \/ \E r \in DefaultRequests : tasks = {} /\ FetchEvent(r)
  \/ \E t \in tasks : DefaultLookup(t)
  \/ \E kind \in SweepKinds : jobs = {} /\ SweepTimer(kind)
  \/ \E j \in jobs : SweepOpen(j)
  \/ \E j \in jobs : SweepEntry(j)

SpecDefaultSweep == MaintInit /\ [][NextDefaultSweep]_vars

\* API requests beside INVALIDATE_CACHE messages, with the clock standing
\* still: no entry grows older than maxCacheAge, so the fallback of the API
\* policy starts no refresh
NextApiInvalidate ==
  \/ \E r \in ApiRequests : FetchEvent(r)
  \/ \E p \in puts : PutLands(p)
  \/ \E t \in tasks : ApiFetchOk(t)
  \/ \E t \in tasks : ApiFetchNotOk(t)
  \/ \E t \in tasks : ApiFetchRejected(t)
  \/ \E m \in InvalidateMessages : MessageEvent(m)
  \/ \E j \in jobs : InvalidateCacheStep(j)

SpecApiInvalidate == MaintInit /\ [][NextApiInvalidate]_vars

\* an API URL the api partition does not hold when the sweeps start
UrlApiNew == Abs(<<"/","a","p","i","/","e">>)

\* API requests beside the sweeps
NextApiSweep ==
  \/ Tick
  \/ \E r \in [url : {UrlApiNew}, method : {"GET"}] : FetchEvent(r)
  \/ \E p \in puts : PutLands(p)
  \/ \E t \in tasks : ApiFetchOk(t)
  \/ \E t \in tasks : ApiFetchNotOk(t)
  \/ \E t \in tasks : ApiFetchRejected(t)
  \/ \E t \in tasks : BackgroundFetchOk(t)
  \/ \E t \in tasks : BackgroundFetchFailed(t)
  \/ \E kind \in SweepKinds : SweepTimer(kind)
  \/ \E j \in jobs : SweepOpen(j)
  \/ \E j \in jobs : SweepEntry(j)

SpecApiSweep == MaintInit /\ [][NextApiSweep]_vars

\* UPDATE_CACHE_SIGNATURES messages only
NextUpdate ==
  \/ \E m \in UpdateMessages : MessageEvent(m)
  \/ \E j \in jobs : UpdateSignaturesOpen(j)
  \/ \E j \in jobs : UpdateSignaturesEntry(j)
  \/ \E j \in jobs : UpdateSignaturesPut(j)

SpecUpdate == MaintInit /\ [][NextUpdate]_vars

\* CLEAR_CACHES and GET_CACHE_INFO messages only
NextClear ==
  \/ \E m \in ClearMessages : MessageEvent(m)
  \/ \E j \in jobs : ClearAllCachesStep(j)
  \/ \E j \in jobs : GetCacheInfoStep(j)

SpecClear == MaintInit /\ [][NextClear]_vars

\* the whole control channel
NextControl ==
  \/ \E m \in Messages : MessageEvent(m)
  \/ \E j \in jobs : GetCacheInfoStep(j)
  \/ \E j \in jobs : ClearAllCachesStep(j)
  \/ \E j \in jobs : InvalidateCacheStep(j)
  \/ \E j \in jobs : UpdateSignaturesOpen(j)
  \/ \E j \in jobs : UpdateSignaturesEntry(j)
  \/ \E j \in jobs : UpdateSignaturesPut(j)

SpecControl == MaintInit /\ [][NextControl]_vars

\* a partition of the previous version besides static-v0.9.0
OLD_DYNAMIC_CACHE_NAME == "dynamic-v0.9.0"

\* what Cache Storage may hold when the script is evaluated: nothing, the
\* static partition of the previous version, or partitions of the previous
\* version together with api and dynamic partitions filled by an earlier run
\* of this version
StoragesAtStart ==
  { [caches |-> [n \in {} |-> 0], store |-> << >>],
    [caches |-> (OLD_CACHE_NAME :> 1), store |-> << (UrlIndex :> PreloadedResponse) >>],
    [caches |-> (OLD_CACHE_NAME :> 1) @@ (OLD_DYNAMIC_CACHE_NAME :> 2) @@
                (API_CACHE_NAME :> 3) @@ (DYNAMIC_CACHE_NAME :> 4),
     store |-> << (UrlIndex :> PreloadedResponse),
                  (UrlVersioned :> NetworkResponse("ok", 0, "net")),
                  (UrlApi :> [NetworkResponse("ok", 0, "net") EXCEPT !.ts = toString(0)]),
                  (UrlVersioned :> [NetworkResponse("ok", 0, "net") EXCEPT
                                      !.ts = toString(0), !.bypass = <<"t","r","u","e">>]) >>] }

ActivateInit ==
  /\ worker = "production"
  /\ phase = "parsed"
  /\ now = 0
  /\ ticks = 0
  /\ \E s \in StoragesAtStart : caches = s.caches /\ store = s.store
  /\ nreq = 0
  /\ tasks = {}
  /\ puts = {}
  /\ lastEvent = NoEvent
  /\ last = NoOutcome
  /\ served = {}
  /\ jobs = {}
  /\ njobs = NoneStarted
  /\ replies = << >>
  /\ lastJob = NoJob
  /\ buster = NewCacheBuster

\* install, activation, and the fetch events that follow
NextActivate ==
  \/ Install
  \/ Activate
  \/ \E r \in Requests : FetchEvent(r)

SpecActivate == ActivateInit /\ [][NextActivate]_vars

\* the strategy tester alone
NextBuster == \E strategyName \in StrategyNames : testStrategy(strategyName)

SpecBuster == Init /\ [][NextBuster]_vars

\* the routers of both workers, probed with every request of RouteRequests
RouteInit == \E w \in {"production", "sw"} : InitFor(w)

RouteNext ==
  \/ Install
  \/ Activate
  \/ \E r \in RouteRequests : FetchEvent(r)
  \/ \E r \in RouteRequests : SwFetchEvent(r)

SpecRoute == RouteInit /\ [][RouteNext]_vars

(***************************************************************************)
(* Properties of the router.                                               *)
(***************************************************************************)
\* the path of a URL: what follows the origin, up to the query string
PathOf(url) ==
  LET o == Len(UrlOrigin(url))
      q == IndexFrom(url, "?", 1)
  IN SubSeq(url, o + 1, IF q = 0 THEN Len(url) ELSE q - 1)

\* the query string of a URL, without its "?"
QueryOf(url) ==
  LET q == IndexFrom(url, "?", 1)
  IN IF q = 0 THEN <<>> ELSE SubSeq(url, q + 1, Len(url))

\* the query string holds a parameter called name
HasParameter(url, name) ==
  Includes(<<"&">> \o QueryOf(url), <<"&">> \o name \o <<"=">>)

Policies == {"api", "asset", "versioned", "default"}

\* the asset predicate of the registered worker
AssetPredicate(url) ==
  IF worker = "production" THEN IsAssetUrl(url) ELSE SwIsAssetUrl(url)

\* the tasks started by the last fetch event
StartedByLastEvent == {t \in tasks : t.id = lastEvent.n}

\* C1: for a same-origin GET request the listener invokes exactly one of the
\* four policy handlers, the first match in the order API > asset > versioned
\* > default, and two events for the same URL get the same policy.
RouterSelectsFirstMatch ==
  /\ (lastEvent.n > 0 /\ Intercepted(lastEvent.request)) =>
       LET url == lastEvent.request.url
       IN /\ Cardinality(lastEvent.handlers) = 1
          /\ lastEvent.handlers \subseteq Policies
          /\ IsApiUrl(url) => lastEvent.handlers = {"api"}
          /\ (~IsApiUrl(url) /\ AssetPredicate(url)) => lastEvent.handlers = {"asset"}
          /\ (~IsApiUrl(url) /\ ~AssetPredicate(url) /\ IsVersionedUrl(url))
               => lastEvent.handlers = {"versioned"}
          /\ (~IsApiUrl(url) /\ ~AssetPredicate(url) /\ ~IsVersionedUrl(url))
               => lastEvent.handlers = {"default"}
          /\ Cardinality(StartedByLastEvent) = 1
          /\ \A t \in StartedByLastEvent :
               t.url = url /\ t.policy \in lastEvent.handlers
  /\ \A t1, t2 \in tasks : t1.url = t2.url => t1.policy = t2.policy

UrlApiScript == Abs(<<"/","a","p","i","/","d",".","j","s">>)

\* C1 witness: /api/d.js, which is an API and an asset URL, was requested
\* twice from the production worker and both times given to the API policy
RouterTieBreakReached ==
  /\ worker = "production"
  /\ lastEvent.request = [url |-> UrlApiScript, method |-> "GET"]
  /\ lastEvent.handlers = {"api"}
  /\ Cardinality({t \in tasks : t.url = UrlApiScript /\ t.policy = "api"}) = 2

\* C2: an event whose method is not GET or whose origin is foreign starts no
\* handler (so no fetch is issued for it) and leaves Cache Storage, the
\* partitions and the pending writes as they were.
NotInterceptedUntouched ==
  [][(nreq' # nreq /\ ~( /\ lastEvent'.request.method = "GET"
                         /\ UrlOrigin(lastEvent'.request.url) = LocationOrigin ))
       => /\ lastEvent'.handlers = {}
          /\ UNCHANGED <<caches, store, tasks, puts, last>>]_vars

\* C2 witness: a POST to the API URL and then a GET to a foreign origin
\* arrived at the active worker, and no task and no api partition exists
NotInterceptedReached ==
  /\ nreq = 2
  /\ lastEvent.request = [url |-> ForeignOrigin \o <<"/","a","p","i","/","d">>,
                          method |-> "GET"]
  /\ tasks = {}
  /\ DOMAIN caches = {STATIC_CACHE_NAME}

\* C3 as stated: a same-origin GET request that is not an API request goes to
\* the asset policy exactly when its path contains /assets/ or ends in .js or
\* .css.
AssetRoutingByPath ==
  (/\ worker = "production"
   /\ lastEvent.n > 0
   /\ Intercepted(lastEvent.request)
   /\ ~Includes(PathOf(lastEvent.request.url), <<"/","a","p","i","/">>))
    => LET path == PathOf(lastEvent.request.url)
       IN lastEvent.handlers = {"asset"}
            <=> \/ Includes(path, <<"/","a","s","s","e","t","s","/">>)
                \/ EndsWith(path, <<".","j","s">>)
                \/ EndsWith(path, <<".","c","s","s">>)

\* C4 as stated: a same-origin GET request given neither to the API nor to
\* the asset policy goes to the versioned policy exactly when its query string
\* holds a parameter v, cb or h, at any position, and to the default policy
\* otherwise.
VersionedRoutingByParameter ==
  (/\ worker = "production"
   /\ lastEvent.n > 0
   /\ Intercepted(lastEvent.request)
   /\ lastEvent.handlers \cap {"api", "asset"} = {})
    => LET url == lastEvent.request.url
           versioned == \/ HasParameter(url, <<"v">>)
                        \/ HasParameter(url, <<"c","b">>)
                        \/ HasParameter(url, <<"h">>)
       IN /\ versioned => lastEvent.handlers = {"versioned"}
          /\ ~versioned => lastEvent.handlers = {"default"}

(***************************************************************************)
(* Properties of the asset policy (SpecAsset).                             *)
(***************************************************************************)
\* the signature of a URL in the 5-minute bucket of time t
SignatureAt(url, t) == url \o <<"_">> \o toString(t \div SignatureInterval)

\* the 5-minute bucket of time t
BucketOf(t) == t \div SignatureInterval

\* C5: when the asset lookup finds an entry whose stored signature is the
\* signature of the URL in the bucket of the lookup, that entry is returned
\* and the handler issues no fetch and no write; an entry stamped by an asset
\* write in the bucket of the lookup is such an entry.
AssetHitServedWithoutFetch ==
  (last.policy = "asset" /\ last.hit # NoResponse) =>
    /\ last.hit.sig = SignatureAt(last.url, last.looked) =>
         /\ last.outcome = "cached"
         /\ last.resp = last.hit
         /\ last.net = "none"
         /\ last.put = NoPut
    /\ (/\ last.hit.sig # Null
        /\ BucketOf(ParseInt(last.hit.ts)) = BucketOf(last.looked)) =>
         /\ last.outcome = "cached"
         /\ last.net = "none"

\* C5 witness: the second request found, later in the same bucket, the entry
\* the first request wrote, and was served from it without a fetch
AssetServedInSameBucket ==
  /\ last.policy = "asset"
  /\ last.id = 2
  /\ last.hit.body = <<1, "net">>
  /\ ParseInt(last.hit.ts) < last.looked
  /\ last.outcome = "cached"
  /\ last.net = "none"

\* C6: when the asset lookup finds no entry, or one whose stored signature is
\* not that of the bucket of the lookup, a live fetch is issued; when it ends
\* ok the caller gets the live response and the handler writes it to the
\* static partition under the URL with the signature of the current bucket
\* and the current time as X-Cache-Timestamp, so every entry a handler wrote
\* carries the signature of the bucket of its timestamp.
AssetMissFetchesAndOverwrites ==
  /\ last.policy = "asset" =>
       /\ (\/ last.hit = NoResponse
           \/ last.hit.sig # SignatureAt(last.url, last.looked)) => last.net # "none"
       /\ last.net = "ok" =>
            /\ last.outcome = "live"
            /\ last.resp = NetworkResponse("ok", last.id, "net")
            /\ last.put =
                 [cache |-> caches[STATIC_CACHE_NAME], url |-> last.url,
                  resp |-> [last.resp EXCEPT !.sig = SignatureAt(last.url, last.at),
                                             !.ts = toString(last.at)],
                  by |-> <<last.id, "asset">>]
  /\ \A u \in DOMAIN Partition(STATIC_CACHE_NAME) :
       LET e == Partition(STATIC_CACHE_NAME)[u]
       IN e.body[2] = "net" =>
            /\ e.status = "ok"
            /\ e.sig = SignatureAt(u, ParseInt(e.ts))

\* C6 witness: after the bucket rolled over, the second request found the
\* entry of the first with an outdated signature, fetched, and its write has
\* replaced that entry
AssetRefetchedAfterRollover ==
  /\ last.policy = "asset"
  /\ last.id = 2
  /\ last.hit.body = <<1, "net">>
  /\ BucketOf(ParseInt(last.hit.ts)) < BucketOf(last.looked)
  /\ last.net = "ok"
  /\ last.outcome = "live"
  /\ last.url \in DOMAIN Partition(STATIC_CACHE_NAME)
  /\ Partition(STATIC_CACHE_NAME)[last.url] = last.put.resp

\* C7: when the live fetch of the asset policy rejects, the caller gets the
\* entry found at lookup time if there was one and the fetch error otherwise,
\* and no partition changes and no write is issued.
AssetRejectFallsBack ==
  [][(last' # last /\ last'.policy = "asset" /\ last'.net = "reject") =>
       /\ UNCHANGED <<caches, store, puts>>
       /\ last'.put = NoPut
       /\ \E t \in tasks \ tasks' : t.id = last'.id /\ last'.hit = t.cached
       /\ last'.hit # NoResponse =>
            (last'.outcome = "cached" /\ last'.resp = last'.hit)
       /\ last'.hit = NoResponse =>
            (last'.outcome = "error" /\ last'.resp = NoResponse)]_vars

\* C7 witness: the fetch of the second request rejected and the caller got
\* the outdated entry of the first request, which is still stored
AssetStaleServedOnReject ==
  /\ last.policy = "asset"
  /\ last.id = 2
  /\ last.net = "reject"
  /\ last.outcome = "cached"
  /\ last.resp.body = <<1, "net">>
  /\ Partition(STATIC_CACHE_NAME)[last.url] = last.resp

(***************************************************************************)
(* Properties of the API policy (SpecApi).                                 *)
(***************************************************************************)
\* the entry of the api partition for a URL
ApiEntry(url) ==
  IF url \in DOMAIN Partition(API_CACHE_NAME)
  THEN Partition(API_CACHE_NAME)[url] ELSE NoResponse

\* C8: every API request ends with a live fetch attempted, the cache being
\* consulted only after the fetch rejected; when the fetch ends ok the caller
\* gets the live response and the handler writes it, stamped with the current
\* time, to the api partition and to no other.
ApiNetworkFirst ==
  /\ last.policy = "api" =>
       /\ last.net # "none"
       /\ last.outcome = "cached" => last.net = "reject"
       /\ last.net # "reject" => last.hit = NoResponse
       /\ last.net = "ok" =>
            /\ last.outcome = "live"
            /\ last.resp = NetworkResponse("ok", last.id, "net")
            /\ last.put =
                 [cache |-> caches[API_CACHE_NAME], url |-> last.url,
                  resp |-> [last.resp EXCEPT !.ts = toString(last.at)],
                  by |-> <<last.id, "api">>]
  /\ \A p \in puts : p.by[2] = "api" => p.cache = caches[API_CACHE_NAME]
  /\ \A n \in DOMAIN caches \ {API_CACHE_NAME} :
       \A u \in DOMAIN Partition(n) : Partition(n)[u].body[2] = "preload"

\* C8 witness: the api partition holds the entry the first request wrote and
\* the second request, later, was answered with its own live response
ApiLiveDespiteEntry ==
  /\ last.policy = "api"
  /\ last.id = 2
  /\ last.net = "ok"
  /\ last.outcome = "live"
  /\ ApiEntry(last.url).body = <<1, "net">>
  /\ ParseInt(ApiEntry(last.url).ts) < last.at

\* C9: when the live fetch of the API policy rejects, the entry of the api
\* partition is returned if there is one, and a detached refresh is started
\* exactly when that entry is older than maxCacheAge; with no entry the error
\* goes to the caller; in both cases no partition changes and no write is issued.
ApiRejectFallsBack ==
  [][(last' # last /\ last'.policy = "api" /\ last'.net = "reject") =>
       LET entry == ApiEntry(last'.url)
           refresh == {t \in tasks' \ tasks :
                         /\ t.policy = "refreshCacheInBackground"
                         /\ t.url = last'.url}
       IN /\ UNCHANGED <<caches, store, puts>>
          /\ last'.put = NoPut
          /\ last'.bg = (refresh # {})
          /\ entry # NoResponse =>
               /\ last'.outcome = "cached"
               /\ last'.resp = entry
               /\ refresh # {} <=> now - ParseInt(entry.ts) > maxCacheAge
          /\ entry = NoResponse =>
               /\ last'.outcome = "error"
               /\ refresh = {}]_vars

\* C9 witness: the fetch rejected, the caller got an entry older than
\* maxCacheAge and the detached refresh is under way
ApiStaleServedAndRefreshing ==
  /\ last.policy = "api"
  /\ last.net = "reject"
  /\ last.outcome = "cached"
  /\ last.at - ParseInt(last.resp.ts) > maxCacheAge
  /\ last.bg
  /\ \E t \in tasks : t.policy = "refreshCacheInBackground" /\ t.url = last.url

\* C10 as stated: an API request that started after an API request for the
\* same URL had returned an ok live response, and whose fetch rejects, gets a
\* cached response and not the network error.
ApiFailureServedFromEarlierSuccess ==
  (last.policy = "api" /\ last.net = "reject" /\ last.prior) =>
    last.outcome = "cached"

(***************************************************************************)
(* Properties of the stale-while-revalidate policies.                      *)
(***************************************************************************)
\* the handler of task t ends its lookup in this step
LookupEnds(t, policy) ==
  t.policy = policy /\ t.pc = "lookup" /\ t \notin tasks'

\* the detached refreshes running on behalf of request id
RefreshesOf(T, id) == {t \in T : t.id = id /\ t.policy \in BackgroundKinds}

\* C11: when the dynamic partition holds an entry for the request at the
\* lookup of the versioned policy, the caller gets exactly that entry, with a
\* detached refresh started; however the refresh ends (ok, non-ok, rejected)
\* or if it never ends, what was delivered stays as it was.
VersionedServesCacheFirst ==
  [][/\ \A t \in tasks :
          (LookupEnds(t, "versioned") /\ t.url \in DOMAIN Partition(DYNAMIC_CACHE_NAME))
            => /\ last'.id = t.id
               /\ last'.outcome = "cached"
               /\ last'.resp = Partition(DYNAMIC_CACHE_NAME)[t.url]
               /\ last'.net = "none"
               /\ Cardinality(RefreshesOf(tasks', t.id)) = 1
     /\ \A t \in tasks :
          (t.policy \in BackgroundKinds /\ t \notin tasks') => last' = last]_vars

\* C11 witness: the second request was served the entry the first one had
\* stored, its refresh has ended without a write and the entry is still there
VersionedServedThoughRefreshFailed ==
  /\ last.policy = "versioned" /\ last.id = 2 /\ last.outcome = "cached"
  /\ last.resp.body = <<1, "net">>
  /\ tasks = {} /\ puts = {}
  /\ Partition(DYNAMIC_CACHE_NAME)[UrlVersioned] = last.resp

\* an entry has an age when it carries a timestamp
HasAge(e) == e.ts # Null

AgeOf(e) == now - ParseInt(e.ts)

\* C12: a hit of the default policy in the static partition returns the
\* entry; a detached refresh is started exactly when the age of the entry
\* exceeds staleWhileRevalidateTime, and otherwise the request ends with no
\* fetch and no write.
DefaultServesAndRefreshesWhenStale ==
  [][\A t \in tasks :
       (LookupEnds(t, "default") /\ t.url \in DOMAIN Partition(STATIC_CACHE_NAME))
         => LET e == Partition(STATIC_CACHE_NAME)[t.url]
                stale == HasAge(e) /\ AgeOf(e) > staleWhileRevalidateTime
            IN /\ last'.id = t.id
               /\ last'.outcome = "cached"
               /\ last'.resp = e
               /\ last'.net = "none"
               /\ stale <=> RefreshesOf(tasks', t.id) # {}
               /\ stale <=> last'.bg
               /\ ~stale => /\ tasks' = tasks \ {t}
                             /\ UNCHANGED <<puts, store, caches>>]_vars

\* C12 witness: an entry written by the default policy was served once at
\* the age of exactly staleWhileRevalidateTime, with no refresh
DefaultFreshAtThreshold ==
  /\ last.policy = "default" /\ last.outcome = "cached" /\ ~last.bg
  /\ HasAge(last.resp)
  /\ last.at - ParseInt(last.resp.ts) = staleWhileRevalidateTime
  /\ tasks = {}

(***************************************************************************)
(* Properties of the stored timestamps.                                    *)
(***************************************************************************)
\* C13: a cache write that lands on a present key stores a timestamp that
\* is at least the timestamp of the entry it overwrites: the timestamp
\* stored under a key never decreases while the key stays present.
StoredTimestampNeverDecreases ==
  [][\A c \in 1..Len(store) : \A u \in DOMAIN store[c] :
       (u \in DOMAIN store'[c] /\ Truthy(store[c][u].ts))
         => /\ Truthy(store'[c][u].ts)
            /\ ParseInt(store'[c][u].ts) >= ParseInt(store[c][u].ts)]_vars

(***************************************************************************)
(* Properties of the sweeps.                                               *)
(***************************************************************************)
\* job j ends in this step with its promise resolved, after it ran with no
\* other sweep or operation beside it and with the clock standing still
RanAloneAt(j, kind) ==
  /\ j.kind = kind /\ j.solo /\ j.t0 = now
  /\ lastJob' # lastJob
  /\ lastJob'.id = j.id /\ lastJob'.outcome = "done"

\* C14: after an age sweep run with clock T, an entry that carried a
\* timestamp when the sweep started remains, as it was, iff T - timestamp
\* <= maxCacheAge; an entry without timestamp remains as it was.
AgeSweepEvictsExactlyTheExpired ==
  [][\A j \in jobs : RanAloneAt(j, "age") =>
       \A n \in DOMAIN j.snapCaches :
         LET c == j.snapCaches[n]
         IN \A u \in DOMAIN j.snapStore[c] :
              LET e == j.snapStore[c][u]
              IN /\ e.ts # Null =>
                      (u \in DOMAIN store'[c] <=> now - ParseInt(e.ts) <= maxCacheAge)
                 /\ e.ts = Null => u \in DOMAIN store'[c]
                 /\ u \in DOMAIN store'[c] => store'[c][u] = e]_vars

\* C14 witness: an age sweep has ended that removed the API entry, which
\* was older than maxCacheAge, and kept the asset entry, whose age was
\* exactly maxCacheAge, and the preload, which has no timestamp
AgeSweepKeptEntryAtThreshold ==
  /\ lastJob.kind = "age" /\ lastJob.outcome = "done" /\ lastJob.solo
  /\ lastJob.t0 = lastJob.t1 /\ now = lastJob.t1 /\ jobs = {}
  /\ UrlApi \in DOMAIN lastJob.snapStore[2]
  /\ UrlApi \notin DOMAIN Partition(API_CACHE_NAME)
  /\ UrlMainJs \in DOMAIN Partition(STATIC_CACHE_NAME)
  /\ now - ParseInt(Partition(STATIC_CACHE_NAME)[UrlMainJs].ts) = maxCacheAge
  /\ UrlIndex \in DOMAIN Partition(STATIC_CACHE_NAME)

\* the signature generateSignature gives url at time t
RecomputedAt(url, t) == url \o <<"_">> \o toString(t \div SignatureInterval)

\* C15: after a signature sweep run with clock T, an entry that carried a
\* signature when the sweep started remains, as it was, iff the signature
\* recomputed for its URL at T equals the stored one; an entry without
\* signature remains as it was.
SignatureSweepEvictsExactlyTheChanged ==
  [][\A j \in jobs : RanAloneAt(j, "signature") =>
       \A n \in DOMAIN j.snapCaches :
         LET c == j.snapCaches[n]
         IN \A u \in DOMAIN j.snapStore[c] :
              LET e == j.snapStore[c][u]
              IN /\ e.sig # Null =>
                      (u \in DOMAIN store'[c] <=> RecomputedAt(u, now) = e.sig)
                 /\ e.sig = Null => u \in DOMAIN store'[c]
                 /\ u \in DOMAIN store'[c] => store'[c][u] = e]_vars

\* C15 witness: a signature sweep has ended, in a later interval than the
\* one the asset entry was signed in, that removed the asset entry and kept
\* the three entries without signature
SignatureSweepRemovedChangedEntry ==
  /\ lastJob.kind = "signature" /\ lastJob.outcome = "done" /\ lastJob.solo
  /\ lastJob.t0 = lastJob.t1 /\ now = lastJob.t1 /\ jobs = {}
  /\ UrlMainJs \in DOMAIN lastJob.snapStore[1]
  /\ UrlMainJs \notin DOMAIN Partition(STATIC_CACHE_NAME)
  /\ UrlIndex \in DOMAIN Partition(STATIC_CACHE_NAME)
  /\ UrlApi \in DOMAIN Partition(API_CACHE_NAME)
  /\ UrlVersioned \in DOMAIN Partition(DYNAMIC_CACHE_NAME)

(***************************************************************************)
(* Properties of the control channel.                                      *)
(***************************************************************************)
\* operation j ends in this step with its promise resolved, after it ran
\* with no sweep and no other operation beside it
EndsAlone(j, kind) ==
  /\ j.kind = kind /\ j.solo
  /\ lastJob' # lastJob
  /\ lastJob'.id = j.id /\ lastJob'.outcome = "done"

\* the reply operation j is expected to post
ReplyTo(j, type, info) == [to |-> j.id, type |-> type, url |-> j.url, info |-> info]

\* C16: INVALIDATE_CACHE(url) removes the entry for url from every
\* partition that holds it, leaves every other entry and every partition
\* name as it was, and replies; for a url cached nowhere (as on a second
\* invocation) it ends the same way and leaves Cache Storage as it was.
InvalidateRemovesOnlyTheUrl ==
  [][\A j \in jobs : EndsAlone(j, "INVALIDATE_CACHE") =>
       /\ caches' = j.snapCaches
       /\ Len(store') = Len(j.snapStore)
       /\ \A c \in 1..Len(store') :
            store'[c] = [u \in (DOMAIN j.snapStore[c]) \ {j.url} |-> j.snapStore[c][u]]
       /\ (\A c \in 1..Len(store') : j.url \notin DOMAIN j.snapStore[c])
            => store' = j.snapStore
       /\ replies' = Append(replies, ReplyTo(j, "CACHE_INVALIDATED", EmptyInfo))]_vars

\* C16 witness: INVALIDATE_CACHE for the cached API URL was handled twice in
\* a row; the first removed the entry, the second found Cache Storage as the
\* first had left it, left it so, and replied as well
InvalidatedTwice ==
  /\ jobs = {} /\ Len(replies) = 2
  /\ \A i \in 1..2 : replies[i].type = "CACHE_INVALIDATED" /\ replies[i].url = UrlApi
  /\ lastJob.id = 2 /\ lastJob.outcome = "done" /\ lastJob.solo
  /\ lastJob.after = 1
  /\ lastJob.snapStore = store /\ lastJob.snapCaches = caches
  /\ UrlApi \notin DOMAIN Partition(API_CACHE_NAME)
  /\ API_CACHE_NAME \in DOMAIN caches
  /\ UrlMainJs \in DOMAIN Partition(STATIC_CACHE_NAME)

\* C17 as stated: UPDATE_CACHE_SIGNATURES(map) changes exactly the entries
\* whose URL is a key of map; every other entry keeps its signature, or its
\* absence, and its timestamp.
UpdateChangesOnlyMappedEntries ==
  [][\A j \in jobs : EndsAlone(j, "UPDATE_CACHE_SIGNATURES") =>
       \A c \in 1..Len(j.snapStore) : \A u \in DOMAIN j.snapStore[c] :
         /\ u \in DOMAIN store'[c]
         /\ IF u \in DOMAIN j.sigs
            THEN /\ store'[c][u].sig = j.sigs[u]
                 /\ store'[c][u].ts = toString(now)
            ELSE /\ store'[c][u].sig = j.snapStore[c][u].sig
                 /\ store'[c][u].ts = j.snapStore[c][u].ts]_vars

\* C17 amended: UPDATE_CACHE_SIGNATURES(map) rewrites every entry of every
\* partition: an entry whose URL is a key of map with a non-empty signature
\* gets that signature, every other entry gets the signature computed for
\* its URL at the time, and every entry gets the time as its timestamp; body
\* and other headers, the partitions and their names stay as they were.
UpdateRewritesEveryEntry ==
  [][\A j \in jobs : (EndsAlone(j, "UPDATE_CACHE_SIGNATURES") /\ j.t0 = now) =>
       /\ caches' = j.snapCaches
       /\ Len(store') = Len(j.snapStore)
       /\ \A c \in 1..Len(j.snapStore) :
            /\ DOMAIN store'[c] = DOMAIN j.snapStore[c]
            /\ \A u \in DOMAIN j.snapStore[c] :
                 store'[c][u] =
                   [j.snapStore[c][u] EXCEPT
                      !.sig = IF u \in DOMAIN j.sigs /\ j.sigs[u] # << >>
                              THEN j.sigs[u] ELSE RecomputedAt(u, now),
                      !.ts = toString(now)]
       /\ replies' = Append(replies, ReplyTo(j, "CACHE_SIGNATURES_UPDATED", EmptyInfo))]_vars

\* C17 witness: an update has ended after which the asset entry carries the
\* supplied signature, and the API entry and the preload, whose URLs are not
\* in the map, carry a computed signature and the time as timestamp
UpdateSignedUnmappedEntries ==
  /\ lastJob.kind = "UPDATE_CACHE_SIGNATURES" /\ lastJob.outcome = "done"
  /\ lastJob.solo /\ jobs = {}
  /\ Partition(STATIC_CACHE_NAME)[UrlMainJs].sig = SuppliedSignatures[UrlMainJs]
  /\ lastJob.snapStore[2][UrlApi].sig = Null
  /\ lastJob.snapStore[2][UrlApi].ts = toString(0)
  /\ Partition(API_CACHE_NAME)[UrlApi].sig = RecomputedAt(UrlApi, now)
  /\ Partition(API_CACHE_NAME)[UrlApi].ts = toString(now)
  /\ Partition(STATIC_CACHE_NAME)[UrlIndex].sig = RecomputedAt(UrlIndex, now)

\* operation j ends in this step with its promise resolved
EndsDone(j, kind) ==
  /\ j.kind = kind
  /\ lastJob' # lastJob
  /\ lastJob'.id = j.id /\ lastJob'.outcome = "done"

\* C18: CLEAR_CACHES deletes every partition and replies; a GET_CACHE_INFO
\* that starts after that reply, with no request in between, reports no
\* entry in any partition; with no partition at all it reports the empty
\* result; and in every CACHE_INFO reply the size of a partition is the
\* number of URLs listed for it.
ClearDeletesAllAndInfoReportsNone ==
  [][/\ \A j \in jobs : EndsAlone(j, "CLEAR_CACHES") =>
          /\ DOMAIN caches' = {}
          /\ replies' = Append(replies, ReplyTo(j, "CACHES_CLEARED", EmptyInfo))
     /\ \A j \in jobs : EndsDone(j, "GET_CACHE_INFO") =>
          LET info == lastJob'.info
          IN /\ replies' = Append(replies, ReplyTo(j, "CACHE_INFO", info))
             /\ \A n \in DOMAIN info : info[n].size = Cardinality(info[n].urls)
             /\ (\E i \in 1..j.after : replies[i].type = "CACHES_CLEARED")
                  => \A n \in DOMAIN info : info[n].size = 0
             /\ DOMAIN j.snapCaches = {} => info = EmptyInfo
             /\ j.solo => /\ DOMAIN info = DOMAIN j.snapCaches
                          /\ \A n \in DOMAIN info :
                               info[n].urls = DOMAIN j.snapStore[j.snapCaches[n]]]_vars

\* C18 witness: CLEAR_CACHES replied, then GET_CACHE_INFO was handled on the
\* empty partition set and replied with the empty result
InfoAfterClearIsEmpty ==
  /\ Len(replies) = 2
  /\ replies[1].type = "CACHES_CLEARED"
  /\ replies[2].type = "CACHE_INFO" /\ replies[2].info = EmptyInfo
  /\ lastJob.kind = "GET_CACHE_INFO" /\ lastJob.after = 1
  /\ DOMAIN lastJob.snapCaches = {}
  /\ DOMAIN caches = {}

\* the type of the reply to a message of each type
ReplyTypeOf(type) ==
  CASE type = "GET_CACHE_INFO" -> "CACHE_INFO"
    [] type = "CLEAR_CACHES" -> "CACHES_CLEARED"
    [] type = "INVALIDATE_CACHE" -> "CACHE_INVALIDATED"
    [] type = "UPDATE_CACHE_SIGNATURES" -> "CACHE_SIGNATURES_UPDATED"

\* the replies posted for message id
RepliesTo(id) == {i \in 1..Len(replies) : replies[i].to = id}

\* C19: an operation that has ended, also one in which a cache operation
\* failed, has posted exactly one reply, of the type of its message and
\* echoing its url; no reply is posted for an operation still running, nor
\* for SKIP_WAITING or a message of unknown type.
EveryOperationRepliesOnce ==
  /\ lastJob.kind \in OperationTypes =>
       /\ Cardinality(RepliesTo(lastJob.id)) = 1
       /\ \A i \in RepliesTo(lastJob.id) :
            /\ replies[i].type = ReplyTypeOf(lastJob.kind)
            /\ replies[i].url = lastJob.url
  /\ lastJob.outcome = "ignored" => RepliesTo(lastJob.id) = {}
  /\ \A j \in jobs : RepliesTo(j.id) = {}

(***************************************************************************)
(* Properties of activation.                                               *)
(***************************************************************************)
\* the three partition names of the current version
CurrentVersionNames == {STATIC_CACHE_NAME, DYNAMIC_CACHE_NAME, API_CACHE_NAME}

\* C20: when activation completes, every partition whose name is not one
\* of the three names of the current version is gone, and the partitions of
\* the current version hold exactly the entries they held before.
ActivationKeepsCurrentVersionOnly ==
  [][(phase = "installed" /\ phase' = "active") =>
       /\ DOMAIN caches' = (DOMAIN caches) \cap CurrentVersionNames
       /\ \A n \in DOMAIN caches' : store'[caches'[n]] = store[caches[n]]]_vars

\* C20 witness: activation has completed where two partitions of the
\* previous version and all three of the current one existed; the former are
\* gone, the latter hold the preload, the API entry and the versioned entry
ActivatedOverOldAndCurrent ==
  /\ phase = "active" /\ nreq = 0
  /\ Len(store) = 5
  /\ DOMAIN caches = CurrentVersionNames
  /\ UrlRoot \in DOMAIN Partition(STATIC_CACHE_NAME)
  /\ UrlApi \in DOMAIN Partition(API_CACHE_NAME)
  /\ UrlVersioned \in DOMAIN Partition(DYNAMIC_CACHE_NAME)

(***************************************************************************)
(* Properties of CacheBuster.                                              *)
(***************************************************************************)
\* C21: testStrategy called with a name that is not registered does not
\* throw: it resolves to a result with success = false and an error text
\* containing 'Unknown strategy'.
UnknownStrategyResolvesToFailure ==
  (buster.call.state # "none" /\ buster.call.name \notin RegisteredStrategies) =>
     /\ buster.call.state = "resolved"
     /\ buster.call.result.success = FALSE
     /\ buster.call.result.error # Null
     /\ Includes(buster.call.result.error, <<"U","n","k","n","o","w","n"," ","s","t","r","a","t","e","g","y">>)

(***************************************************************************)
(* Properties of the handling of non-ok responses.                         *)
(***************************************************************************)
\* the handler of task t, of the given policy, ends in this step after a
\* fetch that completed with a non-ok status
EndsNotOk(t, policy) ==
  /\ t.policy = policy /\ t.pc = "fetch" /\ t \notin tasks'
  /\ last'.id = t.id /\ last'.net = "notok"

\* C22: when the live fetch of the API or of the asset policy completes
\* with a non-ok status and the partition holds an entry for the request,
\* the caller receives that entry and not the non-ok response.
NotOkFallsBackToCache ==
  [][\A t \in tasks :
       ((EndsNotOk(t, "api") \/ EndsNotOk(t, "asset")) /\ t.url \in DOMAIN store[t.cache])
         => /\ last'.outcome = "cached"
            /\ last'.resp = store[t.cache][t.url]]_vars

(***************************************************************************)
(* Properties of what the partitions hold.                                 *)
(***************************************************************************)
\* C23: every entry stored in a partition of the current version carries
\* X-Cache-Timestamp, the entries preloaded at install time included.
EveryEntryCarriesTimestamp ==
  \A n \in CurrentVersionNames : \A u \in DOMAIN Partition(n) :
    Truthy(Partition(n)[u].ts)

(***************************************************************************)
(* Properties of a sweep that meets a failure or another task.             *)
(***************************************************************************)
\* the test sweep kind applies to the entry stored under url
Evicts(kind, url, response) ==
  IF kind = "age" THEN AgeExpired(response) ELSE SignatureChanged(url, response)

\* the places sweep j has yet to examine: the keys left of the partition it
\* is in and the entries of the partitions it has yet to open
YetToExamine(j) ==
  {<<j.cache, u>> : u \in j.keys} \cup
  UNION {{<<caches[n], u>> : u \in DOMAIN store[caches[n]]} :
           n \in {j.names[i] : i \in 2..Len(j.names)} \cap DOMAIN caches}

\* sweep j stops in this step in the middle of a partition
StopsAtEntry(j) ==
  /\ j.kind \in SweepKinds /\ j.pc = "entry"
  /\ \A k \in jobs' : k.id # j.id

\* C24: a failure at one entry of a sweep is confined to that entry: when a
\* sweep stops at an entry, at most one of the entries it had yet to examine
\* is still stored and still meets the test of the sweep.
SweepFailureConfinedToEntry ==
  [][\A j \in jobs : StopsAtEntry(j) =>
       Cardinality({p \in YetToExamine(j) :
                      /\ p[2] \in DOMAIN store'[p[1]]
                      /\ Evicts(j.kind, p[2], store'[p[1]][p[2]])}) <= 1]_vars

\* C25: an entry that another task deleted after a sweep enumerated it is a
\* no-op for the sweep: a sweep none of whose remaining keys of the
\* partition is still stored goes on, and changes no partition by that.
MissingEntryIsNoOp ==
  [][\A j \in jobs :
       (/\ j.kind \in SweepKinds /\ j.pc = "entry"
        /\ j.keys \cap DOMAIN store[j.cache] = {}
        /\ \A k \in jobs' : k.id = j.id => k.keys # j.keys)
         => \E k \in jobs' : k.id = j.id]_vars

\* the entry under url of the partition object cache was stored when job j
\* started
InSnapshot(j, cache, url) ==
  /\ cache \in 1..Len(j.snapStore)
  /\ url \in DOMAIN j.snapStore[cache]

\* C26: a sweep works on the partitions and keys stored when it started:
\* every key it has enumerated, and so goes on to examine and may delete,
\* was stored in that partition at the start of the sweep.
SweepExaminesOnlyItsSnapshot ==
  \A j \in jobs : (j.kind \in SweepKinds /\ j.pc = "entry") =>
    \A u \in j.keys : InSnapshot(j, j.cache, u)

(***************************************************************************)
(* Properties of a deletion beside requests.                               *)
(***************************************************************************)
\* C30: once INVALIDATE_CACHE(url) has replied, url is absent from every
\* partition until a request for url that started after the deletion writes
\* it: an entry stored under url stems from a fetch event later than the
\* ones received when the operation ended.
DeletedUrlStaysAbsent ==
  (lastJob.kind = "INVALIDATE_CACHE" /\ lastJob.outcome = "done") =>
    \A c \in 1..Len(store) :
      lastJob.url \in DOMAIN store[c] => store[c][lastJob.url].body[1] > lastJob.n1

(***************************************************************************)
(* Properties of what the policies write.                                  *)
(***************************************************************************)
\* the partition the policy selected for url opens
OwnPartition(url) == caches[CacheNameOf(CHOOSE p \in SelectPolicy(url) : TRUE)]

\* the entry under u of partition object c is new or changed in this step
Written(c, u) ==
  \/ c > Len(store)
  \/ u \notin DOMAIN store[c]
  \/ store'[c][u] # store[c][u]

\* C27: while the worker is active, no step of a handler, of a background
\* refresh or of a landing write removes a partition or an entry, and an
\* entry that is new or changed is the one a landing cache.put wrote: it is
\* under the URL of the request and in the partition of the policy selected
\* for that URL.
PoliciesWriteOnlyTheirOwnEntry ==
  [][phase = "active" =>
       /\ \A n \in DOMAIN caches : n \in DOMAIN caches' /\ caches'[n] = caches[n]
       /\ Len(store') >= Len(store)
       /\ \A c \in 1..Len(store) : DOMAIN store[c] \subseteq DOMAIN store'[c]
       /\ \A c \in 1..Len(store') : \A u \in DOMAIN store'[c] :
            Written(c, u) =>
              \E p \in puts \ puts' :
                /\ p.url = u /\ p.cache = c /\ store'[c][u] = p.resp
                /\ c = OwnPartition(u)]_vars

\* C27 witness: the write of an asset request has landed in the static
\* partition, beside the preloaded entries, which are as they were
AssetWrittenBesidePreloads ==
  /\ phase = "active" /\ puts = {}
  /\ UrlMainJs \in DOMAIN Partition(STATIC_CACHE_NAME)
  /\ Partition(STATIC_CACHE_NAME)[UrlMainJs].body[2] = "net"
  /\ \A u \in STATIC_FILES \ {UrlMainJs} :
       /\ u \in DOMAIN Partition(STATIC_CACHE_NAME)
       /\ Partition(STATIC_CACHE_NAME)[u] = PreloadedResponse

\* the fetch of the handler of t ends in this step with a non-ok response or
\* a rejection
FetchFails(t) ==
  /\ t.policy \in Policies /\ t.pc = "fetch" /\ t \notin tasks'
  /\ last'.id = t.id /\ last'.net \in {"notok", "reject"}

\* C28: every response stored or on its way to a partition is ok, and the
\* step in which the fetch of a handler ends non-ok or rejected changes no
\* partition and issues no write.
OnlyOkResponsesAreStored ==
  [][/\ \A p \in puts' : p.resp.status = "ok"
     /\ \A c \in 1..Len(store') : \A u \in DOMAIN store'[c] :
          store'[c][u].status = "ok"
     /\ \A t \in tasks : FetchFails(t) =>
          /\ store' = store /\ caches' = caches /\ puts' = puts]_vars

\* C28 witness: an API request was answered non-ok while the api partition
\* held an entry for its URL, which is still there and ok
NotOkLeftEntryInPlace ==
  /\ last.policy = "api" /\ last.net = "notok" /\ puts = {} /\ tasks = {}
  /\ last.url \in DOMAIN Partition(API_CACHE_NAME)
  /\ Partition(API_CACHE_NAME)[last.url].status = "ok"
  /\ Partition(API_CACHE_NAME)[last.url].body[1] < last.id

(***************************************************************************)
(* Properties of the preloaded entries.                                    *)
(***************************************************************************)
\* an entry as the install-time preload writes it
Unstamped(response) == response.ts = Null /\ response.sig = Null

\* C29: an entry of the static partition without X-Cache-Timestamp and
\* X-Signature whose URL goes to the default policy stays as it is through
\* every request and every step of a sweep, whatever the clock, and a
\* request for it is answered with it from the lookup: no fetch and no
\* refresh is started and no write is issued.
PreloadServedUnchanged ==
  [][\A u \in DOMAIN Partition(STATIC_CACHE_NAME) :
       LET e == Partition(STATIC_CACHE_NAME)[u]
       IN (Unstamped(e) /\ SelectPolicy(u) = {"default"}) =>
            /\ STATIC_CACHE_NAME \in DOMAIN caches'
            /\ u \in DOMAIN store'[caches'[STATIC_CACHE_NAME]]
            /\ store'[caches'[STATIC_CACHE_NAME]][u] = e
            /\ \A t \in tasks : (t.url = u /\ t \notin tasks') =>
                 /\ last'.id = t.id /\ last'.outcome = "cached"
                 /\ last'.resp = e /\ last'.net = "none" /\ ~last'.bg
                 /\ \A k \in tasks' : k.id # t.id
                 /\ puts' = puts]_vars

\* C29 witness: more than maxCacheAge after the start, an age sweep has run
\* to its end and removed the API entry, and a request made after it was
\* answered with the preloaded page, which is still stored
PreloadServedAfterSweep ==
  /\ lastJob.kind = "age" /\ lastJob.outcome = "done"
  /\ lastJob.t0 > maxCacheAge + 2
  /\ UrlApi \notin DOMAIN Partition(API_CACHE_NAME)
  /\ last.policy = "default" /\ last.url = UrlIndex /\ last.outcome = "cached"
  /\ last.resp = PreloadedResponse /\ last.at >= lastJob.t1
  /\ tasks = {} /\ jobs = {}
  /\ UrlIndex \in DOMAIN Partition(STATIC_CACHE_NAME)
  /\ Partition(STATIC_CACHE_NAME)[UrlIndex] = PreloadedResponse

=============================================================================
